---- MODULE Spec2Model ----
(***************************************************************************)
(* Observatory backend: the simulated dome controller (DomeFake), its      *)
(* sync loop, and the mount driver's command channel.                      *)
(*                                                                         *)
(* Dome.  Azimuths are whole degrees.  The clock counts ticks of           *)
(* 1/SlewRate seconds, the time the dome takes to turn one degree, so the  *)
(* duration abs(target - start) / slew_rate is a whole number of ticks.    *)
(* time.time() is read through two clocks: `elapsed` is                    *)
(* time.time() - _move_start_time (reset where the code stores             *)
(* time.time() in _move_start_time), and sleep_left[i] is the time left of *)
(* task i's asyncio.sleep.  `elapsed` is kept up to _move_duration: the    *)
(* code only ever tests elapsed >= _move_duration beyond that.             *)
(* The float product delta * fraction is taken on the degree grid          *)
(* (floored); it is exact whenever abs(target - start) <= 180.             *)
(*                                                                         *)
(* Every DomeFake coroutine runs on the one asyncio event loop and has no  *)
(* suspension point other than the sync loop's asyncio.sleep, so each      *)
(* method call is one action.                                              *)
(*                                                                         *)
(* Mount channel.  The telescope routes are plain functions, which the     *)
(* HTTP server runs on worker threads, so calls of TenMicronMount methods  *)
(* run concurrently; a thread can be preempted at every socket call.  The  *)
(* stream is modelled in both directions as a sequence of symbols: a       *)
(* command mnemonic or a reply payload is one symbol, "#" is the           *)
(* terminator.                                                             *)
(***************************************************************************)
EXTENDS Integers, Sequences, FiniteSets, TLC

VARIABLES
    is_connected,      \* DomeFake._is_connected
    azimuth,           \* DomeFake._azimuth
    is_moving,         \* DomeFake._is_moving
    is_syncing,        \* DomeFake._is_syncing
    target_azimuth,    \* DomeFake._target_azimuth
    start_azimuth,     \* DomeFake._start_azimuth
    elapsed,           \* time.time() - DomeFake._move_start_time, in ticks
    move_duration,     \* DomeFake._move_duration, in ticks
    sync_task,         \* DomeFake._sync_task: a task id, or NoTask for None
    tasks,             \* the asyncio tasks created for _sync_loop: id -> status
    sleep_left,        \* id -> ticks left of the task's asyncio.sleep(2)
    stopped,           \* history: stop_movement cut the latest accepted move short
    last,              \* history: the latest DomeFake call and what it returned
    sock,              \* TenMicronMount.sock: a stream id, or NoSock for None
    streams,           \* the TCP streams the driver opened: id -> status
    to_mount,          \* symbols written to the stream, not yet read by the mount
    from_mount,        \* symbols the mount wrote, not yet received by the driver
    pc,                \* caller -> where its send_command call stands
    cmd,               \* caller -> the command of its call
    data,              \* caller -> send_command's local `data`
    result,            \* caller -> what its call returned or raised
    calls,             \* history: how many send_command calls have been made
    opts,              \* caller -> the keyword arguments of its call
    total,             \* caller -> send_command's local `total`
    call,              \* the TenMicronMount method being executed, if any
    at,                \* where that method call stands
    todo,              \* the send_command calls and sleeps it has yet to make
    trace,             \* history: commands it has sent and sleeps it has taken
    replies,           \* what its send_command calls have returned, in order
    outcome,           \* what the method call returned or raised
    conv_in,           \* the number or string a formatter or parser is given
    conv_text,         \* the string formatted, or the string to parse
    conv_out,          \* what the parser returned or raised
    conv_at,           \* how far the conversion has got
    fake_is_connected, \* TenMicronMountFake._is_connected
    fake_is_slewing,   \* TenMicronMountFake._is_slewing
    fake_is_tracking,  \* TenMicronMountFake._is_tracking
    fake_is_parked,    \* TenMicronMountFake._is_parked
    fake_status,       \* TenMicronMountFake._status
    fake_target_set,   \* TenMicronMountFake._target_ra_dec is not None
    fake_slew_left,    \* what is left of _slew_duration at the present time
    fake_last,         \* history: the simulator's latest call and its result
    fake_current,      \* TenMicronMountFake._current_ra_dec
    fake_target,       \* TenMicronMountFake._target_ra_dec, where it is not None
    fake_origin,       \* TenMicronMountFake._slew_start_coords, while slewing
    fake_duration,     \* TenMicronMountFake._slew_duration
    fake_goal,         \* history: _target_ra_dec as it was when the slew started
    geom_in,           \* what calculate_dome_azimuth is given
    geom_out,          \* the azimuth it returned
    net_at,            \* where the /network_status request stands
    net_conn_type,     \* get_network_status's local conn_type
    net_aps,           \* get_network_status's local aps
    net_heard,         \* history: what the mount replied during the request
    net_response,      \* the HTTP response of the request
    http,              \* the latest dome route served and its response
    required_azimuth,  \* what calculate_dome_azimuth gives for the mount's pointing
    stops              \* history: how often the operator has stopped the dome

dome_vars == <<is_connected, azimuth, is_moving, is_syncing, target_azimuth,
               start_azimuth, elapsed, move_duration, sync_task, tasks,
               sleep_left, stopped, last>>

mount_vars == <<sock, streams, to_mount, from_mount, pc, cmd, data, result,
                calls, opts, total>>

driver_vars == <<call, at, todo, trace, replies, outcome>>

conv_vars == <<conv_in, conv_text, conv_out, conv_at>>

fake_pointing == <<fake_current, fake_target, fake_origin, fake_duration,
                   fake_goal>>

fake_vars == <<fake_is_connected, fake_is_slewing, fake_is_tracking,
               fake_is_parked, fake_status, fake_target_set, fake_slew_left,
               fake_last, fake_pointing>>

geom_vars == <<geom_in, geom_out>>

net_vars == <<net_at, net_conn_type, net_aps, net_heard, net_response>>

live_vars == <<required_azimuth, stops>>

lib_vars == <<driver_vars, conv_vars, fake_vars, geom_vars, net_vars, http,
              live_vars>>

other_than_driver == <<dome_vars, mount_vars, conv_vars, fake_vars, geom_vars,
                       net_vars, http, live_vars>>

other_than_conv == <<dome_vars, mount_vars, driver_vars, fake_vars, geom_vars,
                     net_vars, http, live_vars>>

other_than_fake == <<dome_vars, mount_vars, driver_vars, conv_vars, geom_vars,
                     net_vars, http, live_vars>>

other_than_geom == <<dome_vars, mount_vars, driver_vars, conv_vars, fake_vars,
                     net_vars, http, live_vars>>

other_than_net == <<dome_vars, mount_vars, driver_vars, conv_vars, fake_vars,
                    geom_vars, http, live_vars>>

other_than_dome == <<mount_vars, driver_vars, conv_vars, fake_vars, geom_vars,
                     net_vars>>

vars == <<dome_vars, mount_vars, lib_vars>>

----------------------------------------------------------------------------
(* Program constants *)

InitialAzimuth == 180
SlewRate == 5
SyncSleepSeconds == 2
Hysteresis == 1
FullTurn == 360
HalfTurn == 180

TicksPerSecond == SlewRate
SyncSleep == SyncSleepSeconds * TicksPerSecond

(* Bounds and input sets *)

MaxTasks == 2
TaskIds == 1..MaxTasks
NoTask == 0

MaxStreams == 2
StreamIds == 1..MaxStreams
NoSock == 0

MaxCallers == 2
Callers == 1..MaxCallers

\* send_command calls in one run
MaxCalls == 2

\* operator stops in one run of the dome following the mount
MaxStops == 1

\* symbols the stream buffers in one direction before the writer has to wait
MaxUnread == 5

\* the bytes a reply is made of, other than the symbols of ReplyTo: a
\* character, white space, the terminator
Space == " "
Bytes == {"1", Space, "#"}

\* values of max_bytes small enough for the byte budget to be reached
SmallBudgets == {2}

\* the caller of the sequential runs
FirstCaller == CHOOSE c \in Callers : \A d \in Callers : c <= d

\* DomeMoveRequest.az admits 0 <= az <= 360
AzTargets == {0, 10, 350, 360}
\* azimuths calculate_dome_azimuth may return for the mount's pointing
RequiredAzValues == {181, 182, 359}
\* how far one step of the clock advances: 20 s
TickSteps == {10 * SyncSleep}

----------------------------------------------------------------------------
(* Helpers *)

Abs(x) == IF x < 0 THEN -x ELSE x
Min(a, b) == IF a < b THEN a ELSE b
Max(a, b) == IF a > b THEN a ELSE b

\* the latest call: the method, what it raised ("ok": nothing), its argument
Call(op, res, arg) == [op |-> op, res |-> res, arg |-> arg]

\* mutant of ShortestDelta: the wrap adjustment left out
ShortestDeltaNoWrap(start, target) == target - start

\* dome_fake.py 83-87: the signed delta of _update_position
ShortestDelta(start, target) ==
    LET delta == target - start
    IN  IF delta > HalfTurn THEN delta - FullTurn
        ELSE IF delta < -HalfTurn THEN delta + FullTurn
        ELSE delta

\* dome_fake.py 169-171: abs(target - start) / slew_rate, in ticks
MoveDuration(start, target) ==
    (Abs(target - start) * TicksPerSecond) \div SlewRate

\* mutant of UpdatePosition: the completion test written elapsed > duration
UpdatePositionStrict ==
    IF ~is_moving THEN [az |-> azimuth, mv |-> FALSE]
    ELSE IF elapsed > move_duration
         THEN [az |-> target_azimuth, mv |-> FALSE]
         ELSE LET delta == target_azimuth - start_azimuth
                  wrapped == IF delta > HalfTurn THEN delta - FullTurn
                             ELSE IF delta < -HalfTurn THEN delta + FullTurn
                             ELSE delta
              IN  [az |-> IF move_duration = 0 THEN start_azimuth % FullTurn
                          ELSE (start_azimuth + (wrapped * elapsed) \div move_duration)
                                 % FullTurn,
                   mv |-> TRUE]

\* dome_fake.py 69-90: _update_position, as the (azimuth, moving) it leaves
UpdatePosition ==
    IF ~is_moving THEN [az |-> azimuth, mv |-> FALSE]
    ELSE IF elapsed >= move_duration
         THEN [az |-> target_azimuth, mv |-> FALSE]
         ELSE LET delta == ShortestDelta(start_azimuth, target_azimuth)
              IN  [az |-> (start_azimuth + (delta * elapsed) \div move_duration)
                             % FullTurn,
                   mv |-> TRUE]

LiveTasks == {i \in TaskIds : tasks[i] \in {"new", "sleeping"}}

\* a task that never ran or has finished: its id stands for a fresh task object
FreeTaskIds == {i \in TaskIds : tasks[i] \in {"none", "cancelled", "done"}}

\* tenmicron.py 154: max_bytes: int = 1024
DefaultMaxBytes == 1024

\* tenmicron.py 149-153: the keyword arguments of send_command that select
\* the framing of the reply
Options(expect_response, terminated, single_char, max_bytes) ==
    [expect_response |-> expect_response, terminated |-> terminated,
     single_char |-> single_char, max_bytes |-> max_bytes]

\* tenmicron.py 149-154: the defaults
DefaultOptions == Options(TRUE, TRUE, FALSE, DefaultMaxBytes)

\* what a send_command call returned (err = "none") or raised
Returned(text) == [err |-> "none", text |-> text]
Raised(err) == [err |-> err, text |-> <<>>]
NoResult == Raised("pending")

\* a method call of the driver: its name, its string argument (None for a
\* Python None) and its integer argument
MethodCall(op, arg, num) == [op |-> op, arg |-> arg, num |-> num]
None == "None"
NoCall == MethodCall("none", None, 0)

\* --- DomeGeometry.calculate_dome_azimuth: the numbers it computes with ---

\* a float as far as the azimuth of a point on an axis depends on it: its
\* sign, with the two zeros of floating point apart, or "any" for a number
\* whose sign the signs of the operands do not determine
IsZero(a) == a \in {"-0", "+0"}
IsNegative(a) == a \in {"neg", "-0"}

Minus(a) ==
    CASE a = "neg" -> "pos"
      [] a = "-0" -> "+0"
      [] a = "+0" -> "-0"
      [] a = "pos" -> "neg"
      [] OTHER -> "any"

Times(a, b) ==
    IF a = "any" \/ b = "any" THEN "any"
    ELSE IF IsZero(a) \/ IsZero(b)
    THEN (IF IsNegative(a) # IsNegative(b) THEN "-0" ELSE "+0")
    ELSE (IF IsNegative(a) # IsNegative(b) THEN "neg" ELSE "pos")

Plus(a, b) ==
    IF a = "any" \/ b = "any" THEN "any"
    ELSE IF IsZero(a) /\ IsZero(b)
    THEN (IF a = "-0" /\ b = "-0" THEN "-0" ELSE "+0")
    ELSE IF IsZero(a) THEN b
    ELSE IF IsZero(b) THEN a
    ELSE IF a = b THEN a
    ELSE "any"

\* np.dot of a 3x3 matrix and a vector, and the sum of two vectors
Dot(row, v) ==
    Plus(Plus(Times(row[1], v[1]), Times(row[2], v[2])), Times(row[3], v[3]))
MatVec(m, v) == <<Dot(m[1], v), Dot(m[2], v), Dot(m[3], v)>>
VecPlus(v, w) == <<Plus(v[1], w[1]), Plus(v[2], w[2]), Plus(v[3], w[3])>>
Scaled(v, a) == <<Times(v[1], a), Times(v[2], a), Times(v[3], a)>>

\* sine and cosine of a latitude or a declination, an angle within a
\* quarter turn of 0
SinQuarter(a) == a
CosQuarter(a) == IF a = "any" THEN "any" ELSE "pos"

\* sine and cosine of an hour angle: known for 0 only
SinTurn(a) == IF IsZero(a) THEN a ELSE "any"
CosTurn(a) == IF IsZero(a) THEN "pos" ELSE "any"

\* sine and cosine of a declination plus np.pi; sin(np.pi) is 1.2e-16
SinFlipped(a) ==
    CASE IsZero(a) -> "pos"
      [] a = "pos" -> "neg"
      [] a = "neg" -> "pos"
      [] OTHER -> "any"
CosFlipped(a) == IF a = "any" THEN "any" ELSE "neg"

\* np.arctan2(x, w) in degrees, plus 360, modulo 360: exact on the axes
AzimuthOf(x, w) ==
    IF x = "any" \/ w = "any" THEN "other"
    ELSE IF IsZero(x) THEN (IF IsNegative(w) THEN "180" ELSE "0")
    ELSE IF IsZero(w) THEN (IF x = "pos" THEN "90" ELSE "270")
    ELSE "other"

\* what calculate_dome_azimuth is given: the configuration of the
\* DomeGeometry and the pointing
Pointing(lat, ns, ew, height, polar, dec_axis, ha, dec, side) ==
    [latitude |-> lat, mount_offset_ns |-> ns, mount_offset_ew |-> ew,
     mount_pier_height |-> height, polar_axis_to_dec_axis |-> polar,
     dec_axis_to_telescope |-> dec_axis, hour_angle |-> ha, dec |-> dec,
     pier_side |-> side]

NoPointing ==
    Pointing("+0", "+0", "+0", "+0", "+0", "+0", "+0", "+0", "none")

\* a string of ':'-separated fields, with its leading sign if it has one; a
\* field is a number (held in hundredths), a word that is no number, or
\* empty
Str(sign, tokens) == [sign |-> sign, tokens |-> tokens]
Number(hundredths) == [kind |-> "number", hundredths |-> hundredths]
Word == [kind |-> "word", hundredths |-> 0]
EmptyField == [kind |-> "empty", hundredths |-> 0]
EmptyString == Str("", <<EmptyField>>)

\* what a conversion is given: a number (in thousandths of a second of time
\* or of arc) to format, or a string to parse
Given(kind, num, text) == [kind |-> kind, num |-> num, text |-> text]
NoInput == Given("none", 0, EmptyString)

\* what a parser returned (err = "none") or raised
Parsed(num) == [err |-> "none", num |-> num]
ParseError(err) == [err |-> err, num |-> 0]

\* what a driver method gave its caller: a value (kind = "none"), or the
\* exception it raised, with the words of its message
Gave(value) == [kind |-> "none", message |-> <<>>, value |-> value]
Threw(kind, message) == [kind |-> kind, message |-> message, value |-> <<>>]

\* an HTTP response: the status code and the wireless_aps field of its body
Response(status, aps) == [status |-> status, aps |-> aps]
NoResponse == Response(0, <<>>)

\* a dome route and the status code of the response it gave
Served(route, status) == [route |-> route, status |-> status]


----------------------------------------------------------------------------
\* the state after construction; input is what the conversions are given,
\* pointing what calculate_dome_azimuth is given, and required the dome
\* azimuth the mount's pointing requires
InitialState(input, pointing, required) ==
    /\ is_connected = FALSE
    /\ azimuth = InitialAzimuth
    /\ is_moving = FALSE
    /\ is_syncing = FALSE
    /\ target_azimuth = InitialAzimuth
    /\ start_azimuth = InitialAzimuth
    /\ elapsed = 0
    /\ move_duration = 0
    /\ sync_task = NoTask
    /\ tasks = [i \in TaskIds |-> "none"]
    /\ sleep_left = [i \in TaskIds |-> 0]
    /\ stopped = FALSE
    /\ last = Call("init", "ok", -1)
    /\ sock = NoSock
    /\ streams = [i \in StreamIds |-> "unused"]
    /\ to_mount = <<>>
    /\ from_mount = <<>>
    /\ pc = [c \in Callers |-> "idle"]
    /\ cmd = [c \in Callers |-> "none"]
    /\ data = [c \in Callers |-> <<>>]
    /\ result = [c \in Callers |-> NoResult]
    /\ calls = 0
    /\ opts = [c \in Callers |-> DefaultOptions]
    /\ total = [c \in Callers |-> 0]
    /\ call = NoCall
    /\ at = "idle"
    /\ todo = <<>>
    /\ trace = <<>>
    /\ replies = <<>>
    /\ outcome = NoResult
    /\ conv_in = input
    /\ conv_text = input.text
    /\ conv_out = ParseError("pending")
    /\ conv_at = IF input = NoInput THEN "idle" ELSE "given"
    /\ fake_is_connected = FALSE
    /\ fake_is_slewing = FALSE
    /\ fake_is_tracking = FALSE
    /\ fake_is_parked = TRUE
    /\ fake_status = "Parked"
    /\ fake_target_set = FALSE
    /\ fake_slew_left = 0
    /\ fake_last = [op |-> "init", res |-> "None"]
    /\ fake_current = 0
    /\ fake_target = 0
    /\ fake_origin = 0
    /\ fake_duration = 0
    /\ fake_goal = 0
    /\ geom_in = pointing
    /\ geom_out = "pending"
    /\ net_at = "idle"
    /\ net_conn_type = None
    /\ net_aps = <<>>
    /\ net_heard = <<>>
    /\ net_response = NoResponse
    /\ http = Served("none", 0)
    /\ required_azimuth = required
    /\ stops = 0

Init == InitialState(NoInput, NoPointing, InitialAzimuth)

----------------------------------------------------------------------------
(* DomeFake operations *)

\* mutant of Connect: the syncing flag is not reset on connecting
ConnectKeepsSyncing ==
    /\ is_connected' = TRUE
    /\ last' = Call("connect", "ok", -1)
    /\ UNCHANGED <<azimuth, is_moving, is_syncing, target_azimuth, start_azimuth,
                   elapsed, move_duration, sync_task, tasks, sleep_left,
                   stopped>>

\* dome_fake.py 51-57
Connect ==
    /\ is_connected' = TRUE
    /\ is_syncing' = IF is_connected THEN is_syncing ELSE FALSE
    /\ last' = Call("connect", "ok", -1)
    /\ UNCHANGED <<azimuth, is_moving, target_azimuth, start_azimuth, elapsed,
                   move_duration, sync_task, tasks, sleep_left,
                   stopped>>

\* mutant of Cancelled: the task is dropped without task.cancel()
CancelledNot(ts) == ts

\* task.cancel() on the task _sync_task refers to
Cancelled(ts) ==
    IF sync_task # NoTask /\ ts[sync_task] \in {"new", "sleeping"}
    THEN [ts EXCEPT ![sync_task] = "cancelled"]
    ELSE ts

\* dome_fake.py 59-67
Close ==
    /\ IF is_connected
       THEN /\ tasks' = Cancelled(tasks)
            /\ sync_task' = NoTask
            /\ is_connected' = FALSE
       ELSE UNCHANGED <<tasks, sync_task, is_connected>>
    /\ sleep_left' = [i \in TaskIds |->
                        IF tasks'[i] \in {"new", "sleeping"} THEN sleep_left[i] ELSE 0]
    /\ last' = Call("close", "ok", -1)
    /\ UNCHANGED <<azimuth, is_moving, is_syncing, target_azimuth, start_azimuth,
                   elapsed, move_duration, stopped>>

\* dome_fake.py 92-102
GetStatus ==
    IF ~is_connected
    THEN /\ last' = Call("get_status", "not_connected", -1)
         /\ UNCHANGED <<is_connected, azimuth, is_moving, is_syncing,
                        target_azimuth, start_azimuth, elapsed, move_duration,
                        sync_task, tasks, sleep_left, stopped>>
    ELSE /\ azimuth' = UpdatePosition.az
         /\ is_moving' = UpdatePosition.mv
         /\ last' = Call("get_status", "ok", -1)
         /\ UNCHANGED <<is_connected, is_syncing, target_azimuth, start_azimuth,
                        elapsed, move_duration, sync_task, tasks, sleep_left, stopped>>

\* dome_fake.py 104-108
GetSyncStatus ==
    /\ last' = Call("get_sync_status", IF is_connected THEN "ok" ELSE "not_connected", -1)
    /\ UNCHANGED <<is_connected, azimuth, is_moving, is_syncing, target_azimuth,
                   start_azimuth, elapsed, move_duration, sync_task, tasks,
                   sleep_left, stopped>>

\* mutant of NeedsNewTask: a task is created on every set_sync(True)
NeedsNewTaskAlways == TRUE

\* dome_fake.py 116: not self._sync_task or self._sync_task.done()
NeedsNewTask ==
    sync_task = NoTask \/ tasks[sync_task] \in {"cancelled", "done"}

\* mutant of SetSync: disabling sync also abandons the move in progress
SetSyncAbortsMove(sync_on) ==
    IF ~is_connected
    THEN /\ last' = Call("set_sync", "not_connected", IF sync_on THEN 1 ELSE 0)
         /\ UNCHANGED <<is_connected, azimuth, is_moving, is_syncing,
                        target_azimuth, start_azimuth, elapsed, move_duration,
                        sync_task, tasks, sleep_left, stopped>>
    ELSE /\ is_syncing' = sync_on
         /\ IF sync_on
            THEN IF NeedsNewTask
                 THEN \E i \in FreeTaskIds :
                        /\ i = CHOOSE j \in FreeTaskIds : TRUE
                        /\ sync_task' = i
                        /\ tasks' = [tasks EXCEPT ![i] = "new"]
                        /\ sleep_left' = [sleep_left EXCEPT ![i] = 0]
                 ELSE UNCHANGED <<sync_task, tasks, sleep_left>>
            ELSE /\ tasks' = Cancelled(tasks)
                 /\ sync_task' = NoTask
                 /\ sleep_left' = [i \in TaskIds |->
                        IF tasks'[i] \in {"new", "sleeping"} THEN sleep_left[i] ELSE 0]
         /\ is_moving' = IF sync_on THEN is_moving ELSE FALSE
         /\ last' = Call("set_sync", "ok", IF sync_on THEN 1 ELSE 0)
         /\ UNCHANGED <<is_connected, azimuth, target_azimuth,
                        start_azimuth, elapsed, move_duration,
                        stopped>>

\* dome_fake.py 110-121
SetSync(sync_on) ==
    IF ~is_connected
    THEN /\ last' = Call("set_sync", "not_connected", IF sync_on THEN 1 ELSE 0)
         /\ UNCHANGED <<is_connected, azimuth, is_moving, is_syncing,
                        target_azimuth, start_azimuth, elapsed, move_duration,
                        sync_task, tasks, sleep_left, stopped>>
    ELSE /\ is_syncing' = sync_on
         /\ IF sync_on
            THEN IF NeedsNewTask
                 THEN \E i \in FreeTaskIds :
                        /\ i = CHOOSE j \in FreeTaskIds : TRUE
                        /\ sync_task' = i
                        /\ tasks' = [tasks EXCEPT ![i] = "new"]
                        /\ sleep_left' = [sleep_left EXCEPT ![i] = 0]
                 ELSE UNCHANGED <<sync_task, tasks, sleep_left>>
            ELSE /\ tasks' = Cancelled(tasks)
                 /\ sync_task' = NoTask
                 /\ sleep_left' = [i \in TaskIds |->
                        IF tasks'[i] \in {"new", "sleeping"} THEN sleep_left[i] ELSE 0]
         /\ last' = Call("set_sync", "ok", IF sync_on THEN 1 ELSE 0)
         /\ UNCHANGED <<is_connected, azimuth, is_moving, target_azimuth,
                        start_azimuth, elapsed, move_duration,
                        stopped>>

\* mutant of MoveRaises: the test of the moving flag left out
MoveRaisesUnguarded == IF ~is_connected THEN "not_connected" ELSE "ok"

\* dome_fake.py 158-161: what move_to_azimuth raises, "ok" when it raises nothing
MoveRaises ==
    IF ~is_connected THEN "not_connected"
    ELSE IF is_moving THEN "already_moving"
    ELSE "ok"

\* mutant of MoveBody: _update_position called before the moving flag is tested
MoveBodyUpdateFirst(target_az) ==
    IF ~is_connected
    THEN UNCHANGED <<azimuth, target_azimuth, start_azimuth, is_moving, elapsed,
                     move_duration, stopped>>
    ELSE IF UpdatePosition.mv
    THEN /\ azimuth' = UpdatePosition.az
         /\ UNCHANGED <<target_azimuth, start_azimuth, is_moving, elapsed,
                        move_duration, stopped>>
    ELSE /\ azimuth' = UpdatePosition.az
         /\ target_azimuth' = target_az
         /\ start_azimuth' = azimuth'
         /\ is_moving' = TRUE
         /\ elapsed' = 0
         /\ move_duration' = MoveDuration(start_azimuth', target_azimuth')
         /\ stopped' = FALSE

\* dome_fake.py 158-171: move_to_azimuth's effect on the move record
MoveBody(target_az) ==
    IF MoveRaises = "ok"
    THEN /\ azimuth' = UpdatePosition.az
         /\ target_azimuth' = target_az
         /\ start_azimuth' = azimuth'
         /\ is_moving' = TRUE
         /\ elapsed' = 0
         /\ move_duration' = MoveDuration(start_azimuth', target_azimuth')
         /\ stopped' = FALSE
    ELSE UNCHANGED <<azimuth, target_azimuth, start_azimuth, is_moving, elapsed,
                     move_duration, stopped>>

\* dome_fake.py 151-171
MoveToAzimuth(target_az) ==
    /\ MoveBody(target_az)
    /\ last' = Call("move_to_azimuth", MoveRaises, target_az)
    /\ UNCHANGED <<is_connected, is_syncing, sync_task, tasks, sleep_left>>

\* mutant of StopMovement: the flag is cleared without _update_position
StopMovementNoUpdate ==
    IF ~is_connected
    THEN /\ last' = Call("stop_movement", "not_connected", -1)
         /\ UNCHANGED <<is_connected, azimuth, is_moving, is_syncing,
                        target_azimuth, start_azimuth, elapsed, move_duration,
                        sync_task, tasks, sleep_left, stopped>>
    ELSE /\ is_moving' = FALSE
         /\ stopped' = IF is_moving THEN TRUE ELSE stopped
         /\ last' = Call("stop_movement", "ok", -1)
         /\ UNCHANGED <<is_connected, azimuth, is_syncing, target_azimuth,
                        start_azimuth, elapsed, move_duration, sync_task, tasks,
                        sleep_left>>

\* dome_fake.py 173-181
StopMovement ==
    IF ~is_connected
    THEN /\ last' = Call("stop_movement", "not_connected", -1)
         /\ UNCHANGED <<is_connected, azimuth, is_moving, is_syncing,
                        target_azimuth, start_azimuth, elapsed, move_duration,
                        sync_task, tasks, sleep_left, stopped>>
    ELSE /\ azimuth' = UpdatePosition.az
         /\ is_moving' = FALSE
         /\ stopped' = IF UpdatePosition.mv THEN TRUE ELSE stopped
         /\ last' = Call("stop_movement", "ok", -1)
         /\ UNCHANGED <<is_connected, is_syncing, target_azimuth, start_azimuth,
                        elapsed, move_duration, sync_task, tasks, sleep_left>>

----------------------------------------------------------------------------
(* The sync loop *)

\* tenmicron_fake.py 114, 222, 289 and tenmicron.py 371, 462, 975: the mount's
\* get_mount_ra_dec, get_sidereal_time and pier_side are plain functions, not
\* coroutines; what they return cannot be awaited
MountMethodsAreCoroutines == FALSE

\* dome_fake.py 144: abs(target_az - self._target_azimuth) > 1.0
BeyondHysteresis(required_az) ==
    Abs(required_az - target_azimuth) > Hysteresis

\* dome_fake.py 126-149: one pass of the try block.  The call
\* mount.get_mount_ra_dec returns (read_ok) or raises MountError; required_az
\* is what calculate_dome_azimuth gives for the mount's pointing.
CycleOutcome(read_ok, required_az) ==
    IF ~read_ok THEN "mount_error"                       \* caught at 148
    ELSE IF ~MountMethodsAreCoroutines THEN "type_error" \* await at 128, caught at 148
    ELSE IF ~is_moving /\ BeyondHysteresis(required_az)
         THEN IF MoveRaises = "ok" THEN "moved" ELSE "dome_error"
         ELSE "held"

\* mutant of SyncCycle: an exception raised in the try block is not caught and
\* ends the task
SyncCycleUncaught(i, read_ok, required_az) ==
    /\ tasks[i] \in {"new", "sleeping"}
    /\ sleep_left[i] = 0
    /\ IF ~is_syncing
       THEN /\ tasks' = [tasks EXCEPT ![i] = "done"]
            /\ last' = Call("sync_cycle", "exit", required_az)
            /\ UNCHANGED <<azimuth, target_azimuth, start_azimuth, is_moving,
                           elapsed, move_duration, stopped, sleep_left>>
       ELSE /\ IF CycleOutcome(read_ok, required_az) = "moved"
               THEN MoveBody(required_az)
               ELSE UNCHANGED <<azimuth, target_azimuth, start_azimuth, is_moving,
                                elapsed, move_duration, stopped>>
            /\ IF CycleOutcome(read_ok, required_az) \in {"moved", "held"}
               THEN /\ tasks' = [tasks EXCEPT ![i] = "sleeping"]
                    /\ sleep_left' = [sleep_left EXCEPT ![i] = SyncSleep]
               ELSE /\ tasks' = [tasks EXCEPT ![i] = "done"]
                    /\ UNCHANGED sleep_left
            /\ last' = Call("sync_cycle", CycleOutcome(read_ok, required_az),
                            required_az)
    /\ UNCHANGED <<is_connected, is_syncing, sync_task>>

\* dome_fake.py 123-150: the coroutine from one suspension to the next
SyncCycle(i, read_ok, required_az) ==
    /\ tasks[i] \in {"new", "sleeping"}
    /\ sleep_left[i] = 0
    /\ IF ~is_syncing
       THEN /\ tasks' = [tasks EXCEPT ![i] = "done"]
            /\ last' = Call("sync_cycle", "exit", required_az)
            /\ UNCHANGED <<azimuth, target_azimuth, start_azimuth, is_moving,
                           elapsed, move_duration, stopped, sleep_left>>
       ELSE /\ IF CycleOutcome(read_ok, required_az) = "moved"
               THEN MoveBody(required_az)
               ELSE UNCHANGED <<azimuth, target_azimuth, start_azimuth, is_moving,
                                elapsed, move_duration, stopped>>
            /\ tasks' = [tasks EXCEPT ![i] = "sleeping"]
            /\ sleep_left' = [sleep_left EXCEPT ![i] = SyncSleep]
            /\ last' = Call("sync_cycle", CycleOutcome(read_ok, required_az),
                            required_az)
    /\ UNCHANGED <<is_connected, is_syncing, sync_task>>

----------------------------------------------------------------------------
(* The environment *)

\* time passes
Tick(dt) ==
    /\ elapsed' = Min(elapsed + dt, move_duration)
    /\ sleep_left' = [i \in TaskIds |-> Max(sleep_left[i] - dt, 0)]
    /\ UNCHANGED <<is_connected, azimuth, is_moving, is_syncing, target_azimuth,
                   start_azimuth, move_duration, sync_task, tasks, stopped, last>>

----------------------------------------------------------------------------
(* The mount driver's command channel *)

Terminator == "#"

\* tenmicron.py 213, 233: sock.recv(4096)
RecvBufSize == 4096

\* tenmicron.py 219: sock.recv(4)
SingleCharRecvSize == 4

\* tenmicron.py 454-460: the queries the callers issue, get_mount_ra and
\* get_mount_dec
Queries == {":GR", ":GD"}

\* tenmicron.py 456, 460: send_command(cmd, expect_response=True, terminated=True)
QueryOptions == Options(TRUE, TRUE, FALSE, DefaultMaxBytes)

\* the calls of send_command the driver's methods make, one of each shape:
\* tenmicron.py 456 (terminated), 133 (no reply), 614 (single character),
\* 739 and 1234 (unterminated; max_bytes is the caller's to choose), and a
\* call with both terminated and single_char set
Invocations ==
    { [command |-> ":GR", opts |-> QueryOptions],
      [command |-> ":U2", opts |-> Options(FALSE, TRUE, FALSE, DefaultMaxBytes)],
      [command |-> ":Sr", opts |-> Options(TRUE, FALSE, TRUE, DefaultMaxBytes)],
      [command |-> ":Sr", opts |-> Options(TRUE, TRUE, TRUE, DefaultMaxBytes)] }
    \cup { [command |-> ":evlog", opts |-> Options(TRUE, FALSE, FALSE, m)] :
              m \in SmallBudgets \cup {DefaultMaxBytes} }

\* tenmicron.py 209-223: if terminated / elif single_char / else
Framing(o) ==
    IF o.terminated THEN "terminated"
    ELSE IF o.single_char THEN "single_char"
    ELSE "unterminated"

\* tenmicron.py 213, 219, 233: the size passed to sock.recv
RecvSize(o) ==
    IF Framing(o) = "single_char" THEN SingleCharRecvSize ELSE RecvBufSize

\* the mount's answer to a command: the payload, then the terminator
\* (tenmicron.py 456, 460); one character without terminator for :GTRK (341)
\* and for :MA (745-748); nothing for :U2 (133)
ReplyTo(command) ==
    IF command = ":GR" THEN <<"ra", Terminator>>
    ELSE IF command = ":GD" THEN <<"dec", Terminator>>
    ELSE IF command = ":GTRK" THEN <<"1">>
    ELSE IF command = ":MA" THEN <<"0">>
    ELSE <<>>

\* calls the driver makes one after another on one connection: get_mount_ra
\* and get_mount_dec (tenmicron.py 456, 460), is_tracking (341) and
\* slew_to_target_altaz (750)
Exchanges ==
    { [command |-> q, opts |-> QueryOptions] : q \in Queries }
    \cup { [command |-> ":GTRK", opts |-> Options(TRUE, FALSE, TRUE, DefaultMaxBytes)],
           [command |-> ":MA", opts |-> Options(FALSE, FALSE, FALSE, DefaultMaxBytes)] }

\* tenmicron.py 199: f"{cmd}#"
Encode(command) == <<command, Terminator>>

\* tenmicron.py 211: data.endswith(b"#")
EndsWithTerminator(bytes) ==
    Len(bytes) > 0 /\ bytes[Len(bytes)] = Terminator

\* tenmicron.py 211, 231: the condition that ends the read loop without a
\* further recv
LoopEnded(c) ==
    \/ /\ Framing(opts[c]) = "terminated"
       /\ EndsWithTerminator(data[c])
    \/ /\ Framing(opts[c]) = "unterminated"
       /\ total[c] >= opts[c].max_bytes

\* tenmicron.py 261: "#" in text
HasTerminator(bytes) == \E i \in 1..Len(bytes) : bytes[i] = Terminator

\* tenmicron.py 262: text.split("#")[0], the text up to the first terminator
RECURSIVE FirstReply(_)
FirstReply(bytes) ==
    IF bytes = <<>> \/ Head(bytes) = Terminator THEN <<>>
    ELSE <<Head(bytes)>> \o FirstReply(Tail(bytes))

\* tenmicron.py 267: text.rstrip("#")
RECURSIVE RStripTerminator(_)
RStripTerminator(text) ==
    IF text # <<>> /\ text[Len(text)] = Terminator
    THEN RStripTerminator(SubSeq(text, 1, Len(text) - 1))
    ELSE text

\* tenmicron.py 267: .strip()
RECURSIVE Strip(_)
Strip(text) ==
    IF text # <<>> /\ Head(text) = Space THEN Strip(Tail(text))
    ELSE IF text # <<>> /\ text[Len(text)] = Space
         THEN Strip(SubSeq(text, 1, Len(text) - 1))
    ELSE text

\* tenmicron.py 256-271: the text send_command returns for the bytes it read
\* (the bytes of the model are ASCII: decoding changes none of them)
TextOf(bytes) ==
    Strip(RStripTerminator(IF HasTerminator(bytes)
                           THEN FirstReply(bytes) \o <<Terminator>>
                           ELSE bytes))

AllIdle == \A c \in Callers : pc[c] = "idle"

\* tenmicron.py 126: self.sock = socket.create_connection(...) rebinds the
\* attribute and never calls close() on the socket it held.  The socket it
\* held is closed only if the runtime finalizes it (collected), and stays
\* open otherwise.
Replaced(collected) ==
    IF sock # NoSock /\ collected
    THEN [streams EXCEPT ![sock] = "closed"]
    ELSE streams

\* tenmicron.py 117-134: connect, at startup or to reconnect
MountConnect(connected) ==
    /\ AllIdle
    /\ IF connected
       THEN \E s \in StreamIds, collected \in BOOLEAN :
               /\ streams[s] = "unused"
               /\ s = CHOOSE t \in StreamIds : streams[t] = "unused"
               /\ streams' = [Replaced(collected) EXCEPT ![s] = "open"]
               /\ sock' = s
               /\ to_mount' = Encode(":U2")
               /\ from_mount' = <<>>
       ELSE UNCHANGED <<sock, streams, to_mount, from_mount>>
    /\ UNCHANGED <<pc, cmd, data, result, calls, opts, total>>

\* tenmicron.py 136-142
MountClose ==
    /\ AllIdle
    /\ IF sock # NoSock
       THEN /\ streams' = [streams EXCEPT ![sock] = "closed"]
            /\ sock' = NoSock
            /\ to_mount' = <<>>
            /\ from_mount' = <<>>
       ELSE UNCHANGED <<sock, streams, to_mount, from_mount>>
    /\ UNCHANGED <<pc, cmd, data, result, calls, opts, total>>

\* mutant of NotConnected: the test of self.sock left out
NotConnectedNever == FALSE

\* tenmicron.py 190: not self.sock
NotConnected == sock = NoSock

\* mutant of ExpectsNoResponse: send_command reads a reply to every command
ExpectsNoResponseNever(o) == FALSE

\* tenmicron.py 203: not expect_response
ExpectsNoResponse(o) == ~o.expect_response

\* tenmicron.py 190-207: send_command up to its first read
SendCommand(c, command, o) ==
    /\ pc[c] = "idle"
    /\ calls < MaxCalls
    /\ calls' = calls + 1
    /\ ~NotConnected => Len(to_mount) + Len(Encode(command)) <= MaxUnread
    /\ cmd' = [cmd EXCEPT ![c] = command]
    /\ opts' = [opts EXCEPT ![c] = o]
    /\ data' = [data EXCEPT ![c] = <<>>]
    /\ total' = [total EXCEPT ![c] = 0]
    /\ IF NotConnected
       THEN /\ result' = [result EXCEPT ![c] = Raised("not_connected")]
            /\ pc' = [pc EXCEPT ![c] = "done"]
            /\ UNCHANGED to_mount
       ELSE /\ to_mount' = to_mount \o Encode(command)
            /\ IF ExpectsNoResponse(o)
               THEN /\ result' = [result EXCEPT ![c] = Returned(<<>>)]
                    /\ pc' = [pc EXCEPT ![c] = "done"]
               ELSE /\ result' = [result EXCEPT ![c] = NoResult]
                    /\ pc' = [pc EXCEPT ![c] = "reading"]
    /\ UNCHANGED <<sock, streams, from_mount>>

\* tenmicron.py 215, 222, 239: what `data` holds after a chunk is received
Kept(c, chunk) ==
    IF Framing(opts[c]) = "single_char"
    THEN data[c] \o SubSeq(chunk, 1, 1)
    ELSE data[c] \o chunk

\* tenmicron.py 213, 219, 233: one sock.recv, which returns the first n
\* symbols the stream holds; in single-character framing it is the only one
Recv(c, n) ==
    /\ pc[c] = "reading"
    /\ ~LoopEnded(c)
    /\ n \in 1..Min(Len(from_mount), RecvSize(opts[c]))
    /\ data' = [data EXCEPT ![c] = Kept(c, SubSeq(from_mount, 1, n))]
    /\ total' = [total EXCEPT ![c] =
                    IF Framing(opts[c]) = "unterminated" THEN total[c] + n
                    ELSE total[c]]
    /\ from_mount' = SubSeq(from_mount, n + 1, Len(from_mount))
    /\ IF Framing(opts[c]) = "single_char"
       THEN /\ result' = [result EXCEPT ![c] = Returned(TextOf(data'[c]))]
            /\ pc' = [pc EXCEPT ![c] = "done"]
       ELSE UNCHANGED <<pc, result>>
    /\ UNCHANGED <<sock, streams, to_mount, cmd, calls, opts>>

\* mutant of TimeoutResult: on a timeout whatever was read is returned
TimeoutResultPartial(c) == Returned(TextOf(data[c]))

\* tenmicron.py 234-236, 243-248: what a socket.timeout leads to
TimeoutResult(c) ==
    IF Framing(opts[c]) = "unterminated"
    THEN Returned(TextOf(data[c]))          \* 234-236: the idle window
    ELSE Raised("timeout")                  \* 245-248

\* tenmicron.py 234, 243: sock.recv raises socket.timeout
RecvTimeout(c) ==
    /\ pc[c] = "reading"
    /\ ~LoopEnded(c)
    /\ from_mount = <<>>
    /\ sock # NoSock
    /\ streams[sock] = "open"
    /\ result' = [result EXCEPT ![c] = TimeoutResult(c)]
    /\ pc' = [pc EXCEPT ![c] = "done"]
    /\ UNCHANGED <<sock, streams, to_mount, from_mount, cmd, data, calls,
                   opts, total>>

\* mutant of EofResult: a stream closed by the mount is an error in every
\* framing
EofResultRaises(c) == Raised("no_response")

\* tenmicron.py 214-215, 220-221, 237-238: what the call does when recv
\* returns b"": single-character framing raises, the loops of the other two
\* framings break and what was accumulated is decoded and returned
EofResult(c) ==
    IF Framing(opts[c]) = "single_char"
    THEN Raised("no_response")
    ELSE Returned(TextOf(data[c]))

\* tenmicron.py 214-215, 220-221, 237-238: sock.recv returns b"", the mount
\* having closed the stream
RecvEof(c) ==
    /\ pc[c] = "reading"
    /\ ~LoopEnded(c)
    /\ from_mount = <<>>
    /\ sock # NoSock
    /\ streams[sock] = "peer_closed"
    /\ result' = [result EXCEPT ![c] = EofResult(c)]
    /\ pc' = [pc EXCEPT ![c] = "done"]
    /\ UNCHANGED <<sock, streams, to_mount, from_mount, cmd, data, calls,
                   opts, total>>

\* tenmicron.py 256-271: the read loop has ended; decode and return
Decode(c) ==
    /\ pc[c] = "reading"
    /\ LoopEnded(c)
    /\ result' = [result EXCEPT ![c] = Returned(TextOf(data[c]))]
    /\ pc' = [pc EXCEPT ![c] = "done"]
    /\ UNCHANGED <<sock, streams, to_mount, from_mount, cmd, data, calls,
                   opts, total>>

\* the caller has its result and may call again
Return(c) ==
    /\ pc[c] = "done"
    /\ pc' = [pc EXCEPT ![c] = "idle"]
    /\ cmd' = [cmd EXCEPT ![c] = "none"]
    /\ opts' = [opts EXCEPT ![c] = DefaultOptions]
    /\ data' = [data EXCEPT ![c] = <<>>]
    /\ total' = [total EXCEPT ![c] = 0]
    /\ result' = [result EXCEPT ![c] = NoResult]
    /\ UNCHANGED <<sock, streams, to_mount, from_mount, calls>>

\* the mount reads the next command and writes its answer
MountAnswers ==
    /\ Len(to_mount) >= 2
    /\ to_mount[2] = Terminator
    /\ Len(from_mount) + Len(ReplyTo(to_mount[1])) <= MaxUnread
    /\ from_mount' = from_mount \o ReplyTo(to_mount[1])
    /\ to_mount' = SubSeq(to_mount, 3, Len(to_mount))
    /\ UNCHANGED <<sock, streams, pc, cmd, data, result, calls, opts, total>>

\* the mount reads the next command
MountReads ==
    /\ Len(to_mount) >= 2
    /\ to_mount[2] = Terminator
    /\ to_mount' = SubSeq(to_mount, 3, Len(to_mount))
    /\ UNCHANGED <<sock, streams, from_mount, pc, cmd, data, result, calls,
                   opts, total>>

\* the mount, having read what it was sent, writes one byte of a reply,
\* whatever it is
MountWrites(b) ==
    /\ sock # NoSock
    /\ to_mount = <<>>
    /\ streams[sock] = "open"
    /\ \A c \in Callers : Len(from_mount) + Len(data[c]) < MaxUnread
    /\ from_mount' = Append(from_mount, b)
    /\ UNCHANGED <<sock, streams, to_mount, pc, cmd, data, result, calls,
                   opts, total>>

\* the mount closes its end of the stream
PeerCloses ==
    /\ sock # NoSock
    /\ streams[sock] = "open"
    /\ streams' = [streams EXCEPT ![sock] = "peer_closed"]
    /\ UNCHANGED <<sock, to_mount, from_mount, pc, cmd, data, result, calls,
                   opts, total>>

----------------------------------------------------------------------------
(* TenMicronMount methods built on send_command *)

\* str.upper and str.lower on the one-letter arguments
Upper(d) ==
    CASE d \in {"N", "n"} -> "N"
      [] d \in {"S", "s"} -> "S"
      [] d \in {"E", "e"} -> "E"
      [] d \in {"W", "w"} -> "W"
      [] OTHER -> d

Lower(d) ==
    CASE d \in {"N", "n"} -> "n"
      [] d \in {"S", "s"} -> "s"
      [] d \in {"E", "e"} -> "e"
      [] d \in {"W", "w"} -> "w"
      [] d = "X" -> "x"
      [] OTHER -> d

\* tenmicron.py 789, 809, 829: the set the direction is looked up in
DirectionLetters == {"N", "S", "E", "W", "n", "s", "e", "w"}

\* tenmicron.py 733: the pier sides accepted besides None and ""
PierSideLetters == {"E", "W", "e", "w"}

\* tenmicron.py 920, 1079: the ranges of set_high_alt_limit and
\* adjust_mount_time
MinAltLimit == 0
MaxAltLimit == 90
MinTimeAdjustment == -999
MaxTimeAdjustment == 999

\* the calls made: each method with arguments inside and outside its domain
MethodCalls ==
    {MethodCall(op, None, 0) : op \in {"set_target_ra_dec", "set_target_alt_az"}}
    \cup {MethodCall("set_high_alt_limit", None, n) : n \in {-1, 0, 90, 91}}
    \cup {MethodCall("nudge", d, n) : d \in {"N", "s", "X"}, n \in {-1, 0, 50}}
    \cup {MethodCall("move_direction", d, 0) : d \in {"N", "s", "X"}}
    \cup {MethodCall("halt_movement", d, 0) : d \in {None, "N", "s", "X"}}
    \cup {MethodCall("slew_to_target_equatorial", p, 0) :
             p \in {None, "", "E", "w", "X"}}
    \cup {MethodCall("adjust_mount_time", None, n) :
             n \in {-1000, -999, 999, 1000}}

\* mutant of RaisesValueError: nudge checks the duration only after the move
RaisesValueErrorLate(m) ==
    CASE m.op = "set_high_alt_limit" ->
            m.num < MinAltLimit \/ m.num > MaxAltLimit
      [] m.op = "nudge" -> Upper(m.arg) \notin DirectionLetters
      [] m.op = "move_direction" -> Upper(m.arg) \notin DirectionLetters
      [] m.op = "halt_movement" ->
            m.arg # None /\ m.arg \notin DirectionLetters
      [] m.op = "slew_to_target_equatorial" ->
            m.arg # None /\ m.arg # "" /\ m.arg \notin PierSideLetters
      [] m.op = "adjust_mount_time" ->
            m.num < MinTimeAdjustment \/ m.num > MaxTimeAdjustment
      [] OTHER -> FALSE

\* the tests that open each method, tenmicron.py 733, 789, 808-809, 828-832,
\* 920, 1079: whether the method raises ValueError
RaisesValueError(m) ==
    CASE m.op = "set_high_alt_limit" ->
            m.num < MinAltLimit \/ m.num > MaxAltLimit
      [] m.op = "nudge" ->
            Upper(m.arg) \notin DirectionLetters \/ m.num <= 0
      [] m.op = "move_direction" -> Upper(m.arg) \notin DirectionLetters
      [] m.op = "halt_movement" ->
            m.arg # None /\ m.arg \notin DirectionLetters
      [] m.op = "slew_to_target_equatorial" ->
            m.arg # None /\ m.arg # "" /\ m.arg \notin PierSideLetters
      [] m.op = "adjust_mount_time" ->
            m.num < MinTimeAdjustment \/ m.num > MaxTimeAdjustment
      [] OTHER -> FALSE

\* one thing a method does: a send_command call with its keyword arguments,
\* or a time.sleep
SendStep(command, o) == [command |-> command, opts |-> o]
Sleep == SendStep("sleep", DefaultOptions)

\* tenmicron.py 614, 632, 671, 689, 922: the setters read one character
SingleChar == Options(TRUE, FALSE, TRUE, DefaultMaxBytes)
\* tenmicron.py 736, 738, 792, 811: commands the mount does not answer
NoReply == Options(FALSE, FALSE, FALSE, DefaultMaxBytes)
NoReplyDefaultFraming == Options(FALSE, TRUE, FALSE, DefaultMaxBytes)
\* tenmicron.py 739
Unterminated == Options(TRUE, FALSE, FALSE, DefaultMaxBytes)

\* tenmicron.py 808-811, after the test of the direction
MoveDirection(d) == <<SendStep(":M" \o Lower(Upper(d)), NoReplyDefaultFraming)>>

\* tenmicron.py 791-792, after the test of the direction
HaltMovement(d) ==
    IF d # None
    THEN <<SendStep(":Q" \o Lower(d), NoReplyDefaultFraming)>>
    ELSE <<>>

\* mutant of Nudge: the mount is left moving
NudgeNoHalt(d) == MoveDirection(Upper(d)) \o <<Sleep>>

\* tenmicron.py 834-836, after the tests of the arguments
Nudge(d) ==
    MoveDirection(Upper(d)) \o <<Sleep>> \o HaltMovement(Upper(d))

\* mutant of SetTargetPair: the second axis is left out
SetTargetFirstOnly(first, second) == <<SendStep(first, SingleChar)>>

\* tenmicron.py 653, 710: the two values of the dict literal, in order
SetTargetPair(first, second) ==
    <<SendStep(first, SingleChar), SendStep(second, SingleChar)>>

\* tenmicron.py 735-739, after the test of the pier side
SlewToTargetEquatorial(p) ==
    IF p \in {"E", "e"} THEN <<SendStep(":MSfs3", NoReply)>>
    ELSE IF p \in {"W", "w"} THEN <<SendStep(":MSfs2", NoReply)>>
    ELSE <<SendStep(":MS", Unterminated)>>

\* what a method does once its arguments have passed its tests
Program(m) ==
    CASE m.op = "set_target_ra_dec" -> SetTargetPair(":Sr", ":Sd")
      [] m.op = "set_target_alt_az" -> SetTargetPair(":Sa", ":Sz")
      [] m.op = "set_high_alt_limit" -> <<SendStep(":Sh+", SingleChar)>>
      [] m.op = "nudge" -> Nudge(m.arg)
      [] m.op = "move_direction" -> MoveDirection(m.arg)
      [] m.op = "halt_movement" -> HaltMovement(m.arg)
      [] m.op = "slew_to_target_equatorial" -> SlewToTargetEquatorial(m.arg)
      [] m.op = "adjust_mount_time" -> <<SendStep(":AT", DefaultOptions)>>

\* what the methods return: the dict of the two replies, the reply, whether
\* the reply is '1' (tenmicron.py 1082), or None
ResultOf(m, rs) ==
    CASE m.op \in {"set_target_ra_dec", "set_target_alt_az",
                   "set_high_alt_limit", "slew_to_target_equatorial"} -> rs
      [] m.op = "adjust_mount_time" ->
            <<IF rs = <<"1">> THEN "True" ELSE "False">>
      [] OTHER -> <<>>

\* texts send_command returns for a command the mount answers
ReplyTexts == {"0", "1"}

\* a method is called
Begin(m) ==
    /\ at = "idle"
    /\ call' = m
    /\ trace' = <<>>
    /\ replies' = <<>>
    /\ IF RaisesValueError(m)
       THEN /\ outcome' = Raised("value_error")
            /\ todo' = <<>>
            /\ at' = "done"
       ELSE /\ outcome' = NoResult
            /\ todo' = Program(m)
            /\ at' = "running"

\* time.sleep(ms / 1000.0), tenmicron.py 835
Sleeps ==
    /\ at = "running" /\ todo # <<>> /\ Head(todo) = Sleep
    /\ trace' = Append(trace, "sleep")
    /\ todo' = Tail(todo)
    /\ UNCHANGED <<call, at, replies, outcome>>

\* the exits of one send_command call (tenmicron.py 190-265) as the method
\* that made it sees them: MountError for no socket, MountError for a
\* sendall that failed, '' for a command without reply, the text read, or
\* MountError for a read that timed out
Exchange(timed_out, text) ==
    /\ at = "running" /\ todo # <<>> /\ Head(todo) # Sleep
    /\ IF sock = NoSock
       THEN /\ outcome' = Raised("not_connected")
            /\ at' = "done"
            /\ UNCHANGED <<todo, trace, replies>>
       ELSE IF streams[sock] = "broken"
       THEN /\ outcome' = Raised("send_failed")
            /\ at' = "done"
            /\ UNCHANGED <<todo, trace, replies>>
       ELSE /\ trace' = Append(trace, Head(todo).command)
            /\ IF ~Head(todo).opts.expect_response
               THEN /\ replies' = Append(replies, "")
                    /\ todo' = Tail(todo)
                    /\ UNCHANGED <<at, outcome>>
               ELSE IF timed_out
               THEN /\ outcome' = Raised("timeout")
                    /\ at' = "done"
                    /\ UNCHANGED <<todo, replies>>
               ELSE /\ replies' = Append(replies, text)
                    /\ todo' = Tail(todo)
                    /\ UNCHANGED <<at, outcome>>
    /\ UNCHANGED call

\* the method returns
Completes ==
    /\ at = "running" /\ todo = <<>>
    /\ outcome' = Returned(ResultOf(call, replies))
    /\ at' = "done"
    /\ UNCHANGED <<call, todo, trace, replies>>

\* the caller has the result or the error; the driver is free again
Finish ==
    /\ at = "done"
    /\ at' = "idle"
    /\ call' = NoCall
    /\ trace' = <<>>
    /\ replies' = <<>>
    /\ outcome' = NoResult
    /\ UNCHANGED todo

\* the connection is lost: sendall on the socket raises from now on
LinkBreaks ==
    /\ sock # NoSock
    /\ streams[sock] = "open"
    /\ streams' = [streams EXCEPT ![sock] = "broken"]
    /\ UNCHANGED <<sock, to_mount, from_mount, pc, cmd, data, result, calls,
                   opts, total>>

----------------------------------------------------------------------------
(* Formatters and parsers of sexagesimal strings *)

\* tenmicron.py 284-285, 297-298: minutes per hour or degree, seconds per
\* hour or degree
MinutesPerUnit == 60
SecondsPerUnit == 3600

\* the numbers given to the formatters are exact multiples of a thousandth
\* of a second; the products and quotients of the code are then exact, and
\* the only rounding left is that of the format specification
Thousandths == 1000
\* tenmicron.py 286: {s:05.2f} writes the seconds to hundredths
Hundredths == 100

TicksPerMinute == (SecondsPerUnit \div MinutesPerUnit) * Thousandths
TicksPerUnit == SecondsPerUnit * Thousandths
TicksPerHundredth == Thousandths \div Hundredths

\* numbers given to _hours_to_hms, in [0, 24)
HourInputs ==
    {h * TicksPerUnit + m * TicksPerMinute + s :
        h \in {0, 23}, m \in {0, 59},
        s \in {0, 3, 4, 5, 6, 9, 30000, 59994, 59995, 59999}}

\* numbers given to _degrees_to_dms, in [-90, 180]
DegreeInputs ==
    {sgn * (d * TicksPerUnit + m * TicksPerMinute + s) :
        sgn \in {-1, 1}, d \in {0, 89}, m \in {0, 30},
        s \in {0, 4, 5, 59996}}
    \cup {-90 * TicksPerUnit, 180 * TicksPerUnit}

\* strings given to the parsers: one to four fields, each a number, a word
\* or empty
MaxFields == 4
TextInputs ==
    {Str("", t) :
        t \in UNION {[1..n -> {Number(100), Word, EmptyField}] :
                        n \in 1..MaxFields}}

ConvInputs ==
    {Given("hours", x, EmptyString) : x \in HourInputs}
    \cup {Given("degrees", x, EmptyString) : x \in DegreeInputs}
    \cup {Given("text", 0, t) : t \in TextInputs}

\* mutant of RoundToHundredths: the seconds are cut, not rounded
TruncateToHundredths(ticks, tie_up) == ticks \div TicksPerHundredth

\* tenmicron.py 286, 299: {s:05.2f} rounds the seconds to the nearest
\* hundredth; a value half way is written up or down, as the binary value
\* of s falls
RoundToHundredths(ticks, tie_up) ==
    LET q == ticks \div TicksPerHundredth
        r == ticks % TicksPerHundredth
    IN IF 2 * r > TicksPerHundredth \/ (2 * r = TicksPerHundredth /\ tie_up)
       THEN q + 1 ELSE q

\* tenmicron.py 278-286
HoursToHms(hours, tie_up) ==
    LET h == hours \div TicksPerUnit
        m == (hours - h * TicksPerUnit) \div TicksPerMinute
        s == hours - h * TicksPerUnit - m * TicksPerMinute
    IN Str("", <<Number(h * Hundredths), Number(m * Hundredths),
                 Number(RoundToHundredths(s, tie_up))>>)

\* tenmicron.py 289-300
DegreesToDms(deg, signed, tie_up) ==
    LET sign == IF deg < 0 THEN "-" ELSE "+"
        d == Abs(deg) \div TicksPerUnit
        m == (Abs(deg) - d * TicksPerUnit) \div TicksPerMinute
        s == Abs(deg) - d * TicksPerUnit - m * TicksPerMinute
    IN Str(IF signed THEN sign ELSE "",
           <<Number(d * Hundredths), Number(m * Hundredths),
             Number(RoundToHundredths(s, tie_up))>>)

\* float(): the fields are numbers
AllNumbers(tokens) == \A i \in 1..Len(tokens) : tokens[i].kind = "number"

\* h + m/60 + s/3600 of three fields, in thousandths of a second
Sexagesimal(tokens) ==
    tokens[1].hundredths * (TicksPerUnit \div Hundredths)
    + tokens[2].hundredths * (TicksPerMinute \div Hundredths)
    + tokens[3].hundredths * TicksPerHundredth

SignOf(str) == IF str.sign = "-" THEN -1 ELSE 1

\* tenmicron.py 303-308: the unpacking raises unless there are three fields,
\* float raises on a field that is no number; a sign belongs to the first
\* field
HmsToHours(str) ==
    IF Len(str.tokens) # 3 THEN ParseError("value_error")
    ELSE IF ~AllNumbers(str.tokens) THEN ParseError("value_error")
    ELSE Parsed(Sexagesimal([str.tokens EXCEPT ![1].hundredths = SignOf(str) * @]))

\* tenmicron.py 311-317: the sign is read, then stripped before the split
DmsToDegrees(str) ==
    IF Len(str.tokens) # 3 THEN ParseError("value_error")
    ELSE IF ~AllNumbers(str.tokens) THEN ParseError("value_error")
    ELSE Parsed(SignOf(str)
                * Sexagesimal([str.tokens EXCEPT ![1].hundredths = Abs(@)]))

\* dome_fake.py 42-48: the empty string and a string that has not three
\* fields give 0.0; float raises on a field that is no number
DomeHmsToHours(str) ==
    IF str = EmptyString THEN Parsed(0)
    ELSE IF Len(str.tokens) # 3 THEN Parsed(0)
    ELSE IF ~AllNumbers(str.tokens) THEN ParseError("value_error")
    ELSE Parsed(Sexagesimal([str.tokens EXCEPT ![1].hundredths = SignOf(str) * @]))

Parsers == {"_hms_to_hours", "_dms_to_degrees", "DomeFake._hms_to_hours"}

Parse(parser, str) ==
    CASE parser = "_hms_to_hours" -> HmsToHours(str)
      [] parser = "_dms_to_degrees" -> DmsToDegrees(str)
      [] parser = "DomeFake._hms_to_hours" -> DomeHmsToHours(str)

\* a number is formatted
Formats(tie_up) ==
    /\ conv_at = "given" /\ conv_in.kind \in {"hours", "degrees"}
    /\ conv_text' = IF conv_in.kind = "hours"
                    THEN HoursToHms(conv_in.num, tie_up)
                    ELSE DegreesToDms(conv_in.num, TRUE, tie_up)
    /\ conv_at' = "formatted"
    /\ UNCHANGED <<conv_in, conv_out>>

\* the string formatted is parsed back by the inverse function
ParsesBack ==
    /\ conv_at = "formatted"
    /\ conv_out' = IF conv_in.kind = "hours"
                   THEN HmsToHours(conv_text)
                   ELSE DmsToDegrees(conv_text)
    /\ conv_at' = "parsed"
    /\ UNCHANGED <<conv_in, conv_text>>

\* a string is parsed
Parses(parser) ==
    /\ conv_at = "given" /\ conv_in.kind = "text"
    /\ conv_out' = Parse(parser, conv_text)
    /\ conv_at' = parser
    /\ UNCHANGED <<conv_in, conv_text>>

----------------------------------------------------------------------------
(* TenMicronMountFake *)

\* how long a slew may take, in steps of the clock
MaxSlewDuration == 2

\* what a method of the simulator was called and what it returned
FakeCall(op, res) == [op |-> op, res |-> res]

\* tenmicron_fake.py 81, 107-111: the status of a mount that is not slewing
\* and not parked
RestingStatus(tracking) ==
    IF tracking THEN "Tracking" ELSE "Idle (Tracking Off)"

\* Pointings of the simulator are places on one great circle, numbered so
\* that the mount slews from one to the next in one step of the clock (the
\* slew rate of tenmicron_fake.py 181); a pointing between two of them is
\* given as the place just before it.
Coordinates == 0..MaxSlewDuration

\* tenmicron_fake.py 96, 180: SkyCoord.separation
Separation(a, b) == Abs(b - a)

\* tenmicron_fake.py 78: the slew is over once its duration has elapsed
SlewOver == fake_is_slewing /\ fake_slew_left = 0

\* tenmicron_fake.py 85-98: the pointing the fraction elapsed_time /
\* _slew_duration of the way from _slew_start_coords to _target_ra_dec
Interpolated ==
    fake_origin
      + ((fake_target - fake_origin) * (fake_duration - fake_slew_left))
           \div fake_duration

\* tenmicron_fake.py 72-100: _update_slew, as the pointing it leaves
UpdatedPointing ==
    IF ~fake_is_slewing THEN fake_current
    ELSE IF SlewOver THEN fake_target
    ELSE Interpolated

UpdateSlew ==
    /\ fake_is_slewing' = (fake_is_slewing /\ ~SlewOver)
    /\ fake_status' = IF SlewOver THEN RestingStatus(fake_is_tracking)
                      ELSE fake_status
    /\ fake_current' = UpdatedPointing
    /\ UNCHANGED <<fake_target, fake_origin, fake_duration, fake_goal>>

\* tenmicron_fake.py 60-65
FakeConnect ==
    /\ fake_is_connected' = TRUE
    /\ fake_is_parked' = FALSE
    /\ fake_status' = "Idle (Tracking Off)"
    /\ fake_last' = FakeCall("connect", "None")
    /\ UNCHANGED <<fake_is_slewing, fake_is_tracking, fake_target_set,
                   fake_slew_left>>
    /\ UNCHANGED fake_pointing

\* tenmicron_fake.py 67-70
FakeClose ==
    /\ fake_is_connected' = FALSE
    /\ fake_last' = FakeCall("close", "None")
    /\ UNCHANGED <<fake_is_slewing, fake_is_tracking, fake_is_parked,
                   fake_status, fake_target_set, fake_slew_left>>
    /\ UNCHANGED fake_pointing

\* tenmicron_fake.py 103-112
FakeGetStatus ==
    /\ UpdateSlew
    /\ fake_last' = FakeCall("get_status",
                             IF fake_is_slewing' THEN "Slewing"
                             ELSE IF fake_is_parked THEN "Parked"
                             ELSE RestingStatus(fake_is_tracking))
    /\ UNCHANGED <<fake_is_connected, fake_is_tracking, fake_is_parked,
                   fake_target_set, fake_slew_left>>

\* tenmicron_fake.py 114-129: get_mount_ra_dec, get_mount_alt_az
FakeGetPosition ==
    /\ UpdateSlew
    /\ fake_last' = FakeCall("get_mount_ra_dec", "position")
    /\ UNCHANGED <<fake_is_connected, fake_is_tracking, fake_is_parked,
                   fake_target_set, fake_slew_left>>

\* tenmicron_fake.py 131-165: set_target_ra_dec, set_target_alt_az; valid is
\* whether SkyCoord accepts the coordinates
FakeSetTarget(valid) ==
    /\ fake_target_set' = (fake_target_set \/ valid)
    /\ \E coords \in Coordinates :
          fake_target' = IF valid THEN coords ELSE fake_target
    /\ fake_last' = FakeCall("set_target", IF valid THEN "1" ELSE "0")
    /\ UNCHANGED <<fake_is_connected, fake_is_slewing, fake_is_tracking,
                   fake_is_parked, fake_status, fake_slew_left, fake_current,
                   fake_origin, fake_duration, fake_goal>>

\* mutant of SlewRefused: the simulator slews from the parked position
SlewRefusedNever == "0"

\* tenmicron_fake.py 170-178: what refuses a slew, "0" for nothing does
SlewRefused ==
    IF fake_is_parked THEN "Mount is Parked"
    ELSE IF ~fake_target_set THEN "No Object Set"
    ELSE "0"

\* tenmicron_fake.py 168-192
FakeSlewToTarget(duration) ==
    /\ fake_last' = FakeCall("slew_to_target_equatorial", SlewRefused)
    /\ IF SlewRefused # "0"
       THEN UNCHANGED <<fake_is_slewing, fake_status, fake_slew_left,
                        fake_current, fake_origin, fake_duration, fake_goal>>
       ELSE /\ duration = Separation(UpdatedPointing, fake_target)   \* 175-182
            /\ fake_current' = UpdatedPointing
            /\ fake_origin' = UpdatedPointing
            /\ fake_duration' = duration
            /\ fake_goal' = fake_target
            /\ fake_is_slewing' = TRUE
            /\ fake_status' = "Slewing"
            /\ fake_slew_left' = duration
    /\ UNCHANGED <<fake_is_connected, fake_is_tracking, fake_is_parked,
                   fake_target_set, fake_target>>

\* tenmicron_fake.py 194-199
FakePark ==
    /\ fake_is_parked' = TRUE
    /\ fake_is_tracking' = FALSE
    /\ fake_is_slewing' = FALSE
    /\ fake_status' = "Parked"
    /\ fake_last' = FakeCall("park", "None")
    /\ UNCHANGED <<fake_is_connected, fake_target_set, fake_slew_left>>
    /\ UNCHANGED fake_pointing

\* tenmicron_fake.py 201-204
FakeUnpark ==
    /\ fake_is_parked' = FALSE
    /\ fake_status' = "Idle (Tracking Off)"
    /\ fake_last' = FakeCall("unpark", "None")
    /\ UNCHANGED <<fake_is_connected, fake_is_slewing, fake_is_tracking,
                   fake_target_set, fake_slew_left>>
    /\ UNCHANGED fake_pointing

\* tenmicron_fake.py 206-210
FakeStartTracking ==
    /\ fake_is_tracking' = (fake_is_tracking \/ ~fake_is_parked)
    /\ fake_status' = IF ~fake_is_parked THEN "Tracking" ELSE fake_status
    /\ fake_last' = FakeCall("start_tracking", "None")
    /\ UNCHANGED <<fake_is_connected, fake_is_slewing, fake_is_parked,
                   fake_target_set, fake_slew_left>>
    /\ UNCHANGED fake_pointing

\* tenmicron_fake.py 212-216
FakeStopTracking ==
    /\ fake_is_tracking' = FALSE
    /\ fake_status' = IF ~fake_is_parked /\ ~fake_is_slewing
                      THEN "Idle (Tracking Off)" ELSE fake_status
    /\ fake_last' = FakeCall("stop_tracking", "None")
    /\ UNCHANGED <<fake_is_connected, fake_is_slewing, fake_is_parked,
                   fake_target_set, fake_slew_left>>
    /\ UNCHANGED fake_pointing

\* tenmicron_fake.py 316-318
FakeStopAllMovement ==
    /\ fake_is_slewing' = FALSE
    /\ fake_is_tracking' = FALSE
    /\ fake_last' = FakeCall("stop_all_movement", "None")
    /\ UNCHANGED <<fake_is_connected, fake_is_parked, fake_status,
                   fake_target_set, fake_slew_left>>
    /\ UNCHANGED fake_pointing

\* tenmicron_fake.py 320-321
FakeHaltMovement ==
    /\ fake_is_slewing' = FALSE
    /\ fake_last' = FakeCall("halt_movement", "None")
    /\ UNCHANGED <<fake_is_connected, fake_is_tracking, fake_is_parked,
                   fake_status, fake_target_set, fake_slew_left>>
    /\ UNCHANGED fake_pointing

\* time.time() moves on
FakeClock ==
    /\ fake_slew_left > 0
    /\ fake_slew_left' = fake_slew_left - 1
    /\ UNCHANGED <<fake_is_connected, fake_is_slewing, fake_is_tracking,
                   fake_is_parked, fake_status, fake_target_set, fake_last>>
    /\ UNCHANGED fake_pointing

----------------------------------------------------------------------------
(* DomeGeometry.calculate_dome_azimuth *)

\* configurations and pointings by the signs of their numbers; the pier
\* side as the callers spell it
Pointings ==
    {Pointing(lat, ns, ew, height, polar, dec_axis, ha, dec, side) :
        lat \in {"neg", "+0", "pos"}, ns \in {"neg", "+0", "pos"},
        ew \in {"neg", "+0", "pos"}, height \in {"+0", "pos"},
        polar \in {"+0", "pos"}, dec_axis \in {"+0", "pos"},
        ha \in {"+0", "pos"}, dec \in {"neg", "+0", "pos"},
        side \in {"East", "west"}}

\* mutant of TelescopeAzimuth: the azimuth measured from +Z, the south
TelescopeAzimuthFromSouth(telescope_pos) ==
    AzimuthOf(telescope_pos[1], telescope_pos[3])

\* dome_geometry.py 113-116: atan2(x, -z)
TelescopeAzimuth(telescope_pos) ==
    AzimuthOf(telescope_pos[1], Minus(telescope_pos[3]))

\* dome_geometry.py 64-116
CalculateDomeAzimuth(p) ==
    LET east == p.pier_side \in {"East", "east", "EAST"}
        ra_pivot_pos ==
            <<p.mount_offset_ew, p.mount_pier_height, p.mount_offset_ns>>
        tilt == Minus(p.latitude)
        lat_rot == << <<"pos", "+0", "+0">>,
                      <<"+0", CosQuarter(tilt), Minus(SinQuarter(tilt))>>,
                      <<"+0", SinQuarter(tilt), CosQuarter(tilt)>> >>
        v_ra_to_dec == <<"+0", p.polar_axis_to_dec_axis, "+0">>
        ha_rot == << <<CosTurn(p.hour_angle), "+0", SinTurn(p.hour_angle)>>,
                     <<"+0", "pos", "+0">>,
                     <<Minus(SinTurn(p.hour_angle)), "+0",
                       CosTurn(p.hour_angle)>> >>
        dec_pivot_pos == MatVec(ha_rot, MatVec(lat_rot, v_ra_to_dec))
        v_dec_to_ota ==
            Scaled(<<IF east THEN CosFlipped(p.dec) ELSE CosQuarter(p.dec),
                     "+0",
                     IF east THEN SinFlipped(p.dec) ELSE SinQuarter(p.dec)>>,
                   p.dec_axis_to_telescope)
        ota_offset_vec == MatVec(lat_rot, MatVec(ha_rot, v_dec_to_ota))
        telescope_pos ==
            VecPlus(VecPlus(ra_pivot_pos, dec_pivot_pos), ota_offset_vec)
    IN TelescopeAzimuth(telescope_pos)

\* calculate_dome_azimuth is called
Calculates ==
    /\ geom_in # NoPointing
    /\ geom_out = "pending"
    /\ geom_out' = CalculateDomeAzimuth(geom_in)
    /\ UNCHANGED geom_in

----------------------------------------------------------------------------
(* The /network_status route and the driver methods it calls.  A reply of   *)
(* the mount is a sequence of characters; an exception message a sequence   *)
(* of words.                                                                *)

\* tenmicron.py 1184: the message of the MountError raised for status '1'
ScanUnderwayMessage ==
    <<"Wireless", "access", "point", "scan", "is", "still", "underway", ".">>

\* telescope.py 139: the string the route looks for in str(e)
ScanUnderwayMarker == <<"Wireless", "scan", "is", "still", "underway">>

\* Python's `needle in text` for strings
Contains(needle, text) ==
    \E i \in 0..(Len(text) - Len(needle)) :
       SubSeq(text, i + 1, i + Len(needle)) = needle

\* tenmicron.py 243-248: send_command's MountError when no reply arrives
TimedOut(command) ==
    Threw("MountError", <<"Timeout", "waiting", "for", "response", "to", command>>)

\* str.split(",")
RECURSIVE SplitOnComma(_)
SplitOnComma(s) ==
    IF \A i \in 1..Len(s) : s[i] # "," THEN <<s>>
    ELSE LET k == CHOOSE i \in 1..Len(s) :
                     s[i] = "," /\ \A j \in 1..(i - 1) : s[j] # ","
         IN  <<SubSeq(s, 1, k - 1)>> \o SplitOnComma(SubSeq(s, k + 1, Len(s)))

\* tenmicron.py 1101-1111: get_connection_type
GetConnectionType(reply) ==
    IF reply.kind # "none" THEN reply
    ELSE IF reply.value = <<"0">> THEN Gave("Serial RS-232")
    ELSE IF reply.value = <<"1">> THEN Gave("GPS or GPS/RS-232")
    ELSE IF reply.value = <<"2">> THEN Gave("Cabled LAN")
    ELSE IF reply.value = <<"3">> THEN Gave("Wireless LAN")
    ELSE Threw("MountError", <<"Unknown", "connection", "type", "code", ":">>
                                \o reply.value)

\* tenmicron.py 1166: scan_wireless
ScanWireless(reply) ==
    IF reply.kind # "none" THEN reply ELSE Gave(reply.value = <<"1">>)

\* tenmicron.py 1197-1203: the security type of a security code
SecurityType(code) ==
    CASE code = "o" -> "Open"
      [] code = "w" -> "WEP"
      [] code = "1" -> "WPA"
      [] code = "2" -> "WPA2"
      [] code = "x" -> "Unsupported"
      [] OTHER -> "Unknown"

\* tenmicron.py 1188-1207: the (SSID, security type) pairs of the entries
\* that are at least two characters long
RECURSIVE AccessPoints(_)
AccessPoints(entries) ==
    IF entries = <<>> THEN <<>>
    ELSE LET entry == Head(entries)
         IN  (IF Len(entry) < 2 THEN <<>>
              ELSE <<[ssid |-> Tail(entry), security |-> SecurityType(Head(entry))]>>)
             \o AccessPoints(Tail(entries))

\* tenmicron.py 1168-1207: wireless_access_points
WirelessAccessPoints(reply) ==
    IF reply.kind # "none" THEN reply
    ELSE LET response == reply.value
         IN  IF response = <<"0">> THEN Gave(<<>>)
             ELSE IF response = <<>>       \* response[0] of an empty string
                  THEN Threw("IndexError", <<"string", "index", "out", "of", "range">>)
             ELSE IF Head(response) = "1"
                  THEN Threw("MountError", ScanUnderwayMessage)
             ELSE IF Head(response) # "2"
                  THEN Threw("MountError",
                             <<"Unexpected", "response", "status", ":", Head(response)>>)
             ELSE Gave(AccessPoints(SplitOnComma(Tail(response))))

\* tenmicron.py 1140-1155: get_ip_info
GetIpInfo(reply) ==
    IF reply.kind # "none" THEN reply
    ELSE LET fields == SplitOnComma(reply.value)
         IN  IF Len(fields) # 4      \* the unpacking at 1145
             THEN Threw("ValueError", <<"wrong", "number", "of", "values", "to", "unpack">>)
             ELSE IF fields[4] \notin {<<"D">>, <<"M">>}
             THEN Threw("MountError",
                        <<"Unexpected", "DHCP/Manual", "flag", "in", "response", ":">>
                           \o fields[4])
             ELSE Gave(fields[4] = <<"D">>)

\* what the mount may send in reply to :GINQ#, :GWRSC#, :GWRAP2# and :GIP#
ConnectionTypeReplies == {<<"0">>, <<"1">>, <<"2">>, <<"3">>, <<"9">>}
ScanReplies == {<<"0">>, <<"1">>}
AccessPointReplies ==
    {<<>>, <<"0">>, <<"1">>, <<"2">>, <<"3">>, <<"2", "w", "A">>,
     <<"2", "2", "A", ",", "o">>}
IpInfoReplies ==
    {<<"i", ",", "s", ",", "g", ",", "D">>, <<"i", ",", "s", ",", "g", ",", "M">>,
     <<"i", ",", "s", ",", "g", ",", "X">>, <<"i">>}

\* what a send_command call of the route may end in
Replies(command, texts) == {TimedOut(command)} \cup {Gave(text) : text \in texts}

\* telescope.py 159-160 and the server's handling of any other exception
Fails(r) ==
    /\ net_response' = Response(IF r.kind = "MountError" THEN 503 ELSE 500, <<>>)
    /\ net_at' = "responded"

\* telescope.py 128-129: a request arrives
NetRequest ==
    /\ net_at \in {"idle", "responded"}
    /\ net_at' = "connection_type"
    /\ net_conn_type' = None
    /\ net_aps' = <<>>
    /\ net_heard' = <<>>
    /\ net_response' = NoResponse

\* telescope.py 131
NetConnectionType(reply) ==
    /\ net_at = "connection_type"
    /\ net_heard' = Append(net_heard, reply)
    /\ LET r == GetConnectionType(reply)
       IN  IF r.kind # "none"
           THEN Fails(r) /\ UNCHANGED <<net_conn_type, net_aps>>
           ELSE /\ net_conn_type' = r.value
                /\ net_at' = "scan"
                /\ UNCHANGED <<net_aps, net_response>>

\* telescope.py 133-134
NetScan(reply) ==
    /\ net_at = "scan"
    /\ net_heard' = Append(net_heard, reply)
    /\ LET r == ScanWireless(reply)
       IN  IF r.kind # "none"
           THEN Fails(r) /\ UNCHANGED <<net_conn_type, net_aps>>
           ELSE /\ net_at' = IF r.value THEN "sleep" ELSE "ip_info"
                /\ net_aps' = <<>>
                /\ UNCHANGED <<net_conn_type, net_response>>

\* telescope.py 135: time.sleep(1)
NetSleep ==
    /\ net_at = "sleep"
    /\ net_at' = "access_points"
    /\ UNCHANGED <<net_conn_type, net_aps, net_heard, net_response>>

\* telescope.py 136-142
NetAccessPoints(reply) ==
    /\ net_at = "access_points"
    /\ net_heard' = Append(net_heard, reply)
    /\ LET r == WirelessAccessPoints(reply)
       IN  IF r.kind = "none"
           THEN /\ net_aps' = r.value
                /\ net_at' = "ip_info"
                /\ UNCHANGED <<net_conn_type, net_response>>
           ELSE IF r.kind = "MountError" /\ Contains(ScanUnderwayMarker, r.message)
           THEN /\ net_at' = "ip_info"                      \* pass
                /\ UNCHANGED <<net_conn_type, net_aps, net_response>>
           ELSE Fails(r) /\ UNCHANGED <<net_conn_type, net_aps>>

\* tenmicron.py 1140-1143: the command get_ip_info sends
IpInfoCommand(wireless) == IF wireless THEN ":GIPW" ELSE ":GIP"

\* telescope.py 144-158
NetIpInfo(reply) ==
    /\ net_at = "ip_info"
    /\ reply \in Replies(IpInfoCommand(net_conn_type = "Wireless LAN"), IpInfoReplies)
    /\ IF net_conn_type \notin {"Wireless LAN", "Cabled LAN"}
       THEN /\ Fails(Threw("ValueError", <<"Unsupported", "connection", "type">>))
            /\ UNCHANGED <<net_conn_type, net_aps, net_heard>>
       ELSE /\ net_heard' = Append(net_heard, reply)
            /\ LET r == GetIpInfo(reply)
               IN  IF r.kind # "none"
                   THEN Fails(r) /\ UNCHANGED <<net_conn_type, net_aps>>
                   ELSE /\ net_response' = Response(200, net_aps)
                        /\ net_at' = "responded"
                        /\ UNCHANGED <<net_conn_type, net_aps>>

----------------------------------------------------------------------------
(* The dome routes.  Each handler awaits DomeFake coroutines that never     *)
(* suspend, so a request is served in one step.                             *)

\* dome.py 29-36: GET /dome/status
dome_status ==
    /\ GetStatus
    /\ http' = Served("status", IF is_connected THEN 200 ELSE 503)

\* dome.py 38-45: GET /dome/sync/status
dome_sync_status ==
    /\ GetSyncStatus
    /\ http' = Served("sync/status", IF is_connected THEN 200 ELSE 503)

\* dome.py 51-58: POST /dome/slew; every DomeError of move_to_azimuth is
\* answered 409, and an accepted move is followed by dome_status()
dome_move(az) ==
    IF MoveRaises # "ok"
    THEN /\ MoveToAzimuth(az)
         /\ http' = Served("slew", 409)
    ELSE LET duration == MoveDuration(UpdatePosition.az, az)
         IN  /\ target_azimuth' = az
             /\ start_azimuth' = UpdatePosition.az
             /\ elapsed' = 0
             /\ move_duration' = duration
             /\ azimuth' = IF duration = 0 THEN az
                           ELSE UpdatePosition.az % FullTurn
             /\ is_moving' = (duration # 0)
             /\ stopped' = FALSE
             /\ last' = Call("get_status", "ok", -1)
             /\ http' = Served("slew", 200)
             /\ UNCHANGED <<is_connected, is_syncing, sync_task, tasks, sleep_left>>

\* dome.py 60-67: POST /dome/stop; stop_movement is followed by dome_status()
dome_stop ==
    IF ~is_connected
    THEN /\ StopMovement
         /\ http' = Served("stop", 503)
    ELSE /\ azimuth' = UpdatePosition.az
         /\ is_moving' = FALSE
         /\ stopped' = IF UpdatePosition.mv THEN TRUE ELSE stopped
         /\ last' = Call("get_status", "ok", -1)
         /\ http' = Served("stop", 200)
         /\ UNCHANGED <<is_connected, is_syncing, target_azimuth, start_azimuth,
                        elapsed, move_duration, sync_task, tasks, sleep_left>>

\* dome.py 69-76: POST /dome/sync; set_sync is followed by get_sync_status()
dome_set_slave(slave) ==
    IF ~is_connected
    THEN /\ SetSync(slave)
         /\ http' = Served("sync", 503)
    ELSE /\ is_syncing' = slave
         /\ IF slave
            THEN IF NeedsNewTask
                 THEN \E i \in FreeTaskIds :
                        /\ i = CHOOSE j \in FreeTaskIds : TRUE
                        /\ sync_task' = i
                        /\ tasks' = [tasks EXCEPT ![i] = "new"]
                        /\ sleep_left' = [sleep_left EXCEPT ![i] = 0]
                 ELSE UNCHANGED <<sync_task, tasks, sleep_left>>
            ELSE /\ tasks' = Cancelled(tasks)
                 /\ sync_task' = NoTask
                 /\ sleep_left' = [i \in TaskIds |->
                        IF tasks'[i] \in {"new", "sleeping"} THEN sleep_left[i] ELSE 0]
         /\ last' = Call("get_sync_status", "ok", -1)
         /\ http' = Served("sync", 200)
         /\ UNCHANGED <<is_connected, azimuth, is_moving, target_azimuth,
                        start_azimuth, elapsed, move_duration, stopped>>

----------------------------------------------------------------------------
Next ==
    \/ Connect /\ UNCHANGED <<mount_vars, lib_vars>>
    \/ Close /\ UNCHANGED <<mount_vars, lib_vars>>
    \/ GetStatus /\ UNCHANGED <<mount_vars, lib_vars>>
    \/ GetSyncStatus /\ UNCHANGED <<mount_vars, lib_vars>>
    \/ \E b \in BOOLEAN : SetSync(b) /\ UNCHANGED <<mount_vars, lib_vars>>
    \/ \E t \in AzTargets : MoveToAzimuth(t) /\ UNCHANGED <<mount_vars, lib_vars>>
    \/ StopMovement /\ UNCHANGED <<mount_vars, lib_vars>>
    \/ \E i \in TaskIds, read_ok \in BOOLEAN, az \in RequiredAzValues :
          SyncCycle(i, read_ok, az) /\ UNCHANGED <<mount_vars, lib_vars>>
    \/ \E dt \in TickSteps : Tick(dt) /\ UNCHANGED <<mount_vars, lib_vars>>

Spec == Init /\ [][Next]_vars

MountNext ==
    \/ \E connected \in BOOLEAN : MountConnect(connected) /\ UNCHANGED <<dome_vars, lib_vars>>
    \/ MountClose /\ UNCHANGED <<dome_vars, lib_vars>>
    \/ \E c \in Callers, command \in Queries :
          SendCommand(c, command, QueryOptions) /\ UNCHANGED <<dome_vars, lib_vars>>
    \/ \E c \in Callers, n \in 1..MaxUnread : Recv(c, n) /\ UNCHANGED <<dome_vars, lib_vars>>
    \/ \E c \in Callers : RecvTimeout(c) /\ UNCHANGED <<dome_vars, lib_vars>>
    \/ \E c \in Callers : Decode(c) /\ UNCHANGED <<dome_vars, lib_vars>>
    \/ \E c \in Callers : Return(c) /\ UNCHANGED <<dome_vars, lib_vars>>
    \/ MountAnswers /\ UNCHANGED <<dome_vars, lib_vars>>

MountSpec == Init /\ [][MountNext]_vars

\* one connection, one caller at a time, every framing, and a mount that may
\* write anything
SendNext ==
    \/ sock = NoSock /\ MountConnect(TRUE) /\ UNCHANGED <<dome_vars, lib_vars>>
    \/ \E inv \in Invocations :
          SendCommand(FirstCaller, inv.command, inv.opts) /\ UNCHANGED <<dome_vars, lib_vars>>
    \/ \E n \in 1..MaxUnread : Recv(FirstCaller, n) /\ UNCHANGED <<dome_vars, lib_vars>>
    \/ RecvTimeout(FirstCaller) /\ UNCHANGED <<dome_vars, lib_vars>>
    \/ RecvEof(FirstCaller) /\ UNCHANGED <<dome_vars, lib_vars>>
    \/ Decode(FirstCaller) /\ UNCHANGED <<dome_vars, lib_vars>>
    \/ Return(FirstCaller) /\ UNCHANGED <<dome_vars, lib_vars>>
    \/ MountReads /\ UNCHANGED <<dome_vars, lib_vars>>
    \/ \E b \in Bytes : MountWrites(b) /\ UNCHANGED <<dome_vars, lib_vars>>
    \/ PeerCloses /\ UNCHANGED <<dome_vars, lib_vars>>

SendSpec == Init /\ [][SendNext]_vars

\* the driver's methods, called one at a time over a connection that may be
\* lost at any moment
DriverNext ==
    \/ at = "idle" /\ MountConnect(TRUE)
          /\ UNCHANGED <<dome_vars, lib_vars>>
    \/ at = "idle" /\ MountClose /\ UNCHANGED <<dome_vars, lib_vars>>
    \/ LinkBreaks /\ UNCHANGED <<dome_vars, lib_vars>>
    \/ \E m \in MethodCalls : Begin(m) /\ UNCHANGED other_than_driver
    \/ Sleeps /\ UNCHANGED other_than_driver
    \/ \E timed_out \in BOOLEAN, text \in ReplyTexts :
          Exchange(timed_out, text) /\ UNCHANGED other_than_driver
    \/ Completes /\ UNCHANGED other_than_driver
    \/ Finish /\ UNCHANGED other_than_driver

DriverSpec == Init /\ [][DriverNext]_vars

\* the formatters and parsers applied to numbers and strings
ConvInit ==
    \E input \in ConvInputs : InitialState(input, NoPointing, InitialAzimuth)

ConvNext ==
    \/ \E tie_up \in BOOLEAN :
          Formats(tie_up)
             /\ UNCHANGED other_than_conv
    \/ ParsesBack /\ UNCHANGED other_than_conv
    \/ \E parser \in Parsers :
          Parses(parser) /\ UNCHANGED other_than_conv

ConvSpec == ConvInit /\ [][ConvNext]_vars

\* the simulator's methods, called one after another
FakeNext ==
    \/ FakeConnect /\ UNCHANGED other_than_fake
    \/ FakeClose /\ UNCHANGED other_than_fake
    \/ FakeGetStatus /\ UNCHANGED other_than_fake
    \/ FakeGetPosition /\ UNCHANGED other_than_fake
    \/ \E valid \in BOOLEAN : FakeSetTarget(valid) /\ UNCHANGED other_than_fake
    \/ \E duration \in 0..MaxSlewDuration :
          FakeSlewToTarget(duration) /\ UNCHANGED other_than_fake
    \/ FakePark /\ UNCHANGED other_than_fake
    \/ FakeUnpark /\ UNCHANGED other_than_fake
    \/ FakeStartTracking /\ UNCHANGED other_than_fake
    \/ FakeStopTracking /\ UNCHANGED other_than_fake
    \/ FakeStopAllMovement /\ UNCHANGED other_than_fake
    \/ FakeHaltMovement /\ UNCHANGED other_than_fake
    \/ FakeClock /\ UNCHANGED other_than_fake

FakeSpec == Init /\ [][FakeNext]_vars

\* calculate_dome_azimuth applied to configurations and pointings
GeomInit ==
    \E pointing \in Pointings : InitialState(NoInput, pointing, InitialAzimuth)

GeomNext ==
    Calculates
       /\ UNCHANGED other_than_geom

GeomSpec == GeomInit /\ [][GeomNext]_vars

\* one /network_status request at a time, against a mount that may answer
\* anything or not at all
NetNext ==
    \/ NetRequest /\ UNCHANGED other_than_net
    \/ \E reply \in Replies(":GINQ", ConnectionTypeReplies) :
          NetConnectionType(reply) /\ UNCHANGED other_than_net
    \/ \E reply \in Replies(":GWRSC", ScanReplies) :
          NetScan(reply) /\ UNCHANGED other_than_net
    \/ NetSleep /\ UNCHANGED other_than_net
    \/ \E reply \in Replies(":GWRAP2", AccessPointReplies) :
          NetAccessPoints(reply) /\ UNCHANGED other_than_net
    \/ \E wireless \in BOOLEAN :
          \E reply \in Replies(IpInfoCommand(wireless), IpInfoReplies) :
             NetIpInfo(reply) /\ UNCHANGED other_than_net

NetSpec == Init /\ [][NetNext]_vars

\* the dome served over HTTP: the lifespan connects and closes it, requests
\* arrive in any order, the sync tasks run and time passes
RouteNext ==
    \/ Connect /\ UNCHANGED <<other_than_dome, http, live_vars>>
    \/ Close /\ UNCHANGED <<other_than_dome, http, live_vars>>
    \/ dome_status /\ UNCHANGED <<other_than_dome, live_vars>>
    \/ dome_sync_status /\ UNCHANGED <<other_than_dome, live_vars>>
    \/ \E az \in AzTargets : dome_move(az) /\ UNCHANGED <<other_than_dome, live_vars>>
    \/ dome_stop /\ UNCHANGED <<other_than_dome, live_vars>>
    \/ \E slave \in BOOLEAN : dome_set_slave(slave) /\ UNCHANGED <<other_than_dome, live_vars>>
    \/ \E i \in TaskIds, read_ok \in BOOLEAN, az \in RequiredAzValues :
          SyncCycle(i, read_ok, az) /\ UNCHANGED <<other_than_dome, http, live_vars>>
    \/ \E dt \in TickSteps : Tick(dt) /\ UNCHANGED <<other_than_dome, http, live_vars>>

RouteSpec == Init /\ [][RouteNext]_vars

\* one connection, one caller at a time, and a mount that answers every
\* command it reads, sooner or later
ReplyNext ==
    \/ sock = NoSock /\ MountConnect(TRUE) /\ UNCHANGED <<dome_vars, lib_vars>>
    \/ \E x \in Exchanges :
          SendCommand(FirstCaller, x.command, x.opts) /\ UNCHANGED <<dome_vars, lib_vars>>
    \/ \E n \in 1..MaxUnread : Recv(FirstCaller, n) /\ UNCHANGED <<dome_vars, lib_vars>>
    \/ RecvTimeout(FirstCaller) /\ UNCHANGED <<dome_vars, lib_vars>>
    \/ Decode(FirstCaller) /\ UNCHANGED <<dome_vars, lib_vars>>
    \/ Return(FirstCaller) /\ UNCHANGED <<dome_vars, lib_vars>>
    \/ MountAnswers /\ UNCHANGED <<dome_vars, lib_vars>>

ReplySpec == Init /\ [][ReplyNext]_vars

\* the dome following the mount: the mount keeps its pointing and its reads
\* succeed, the operator moves the dome only before sync is enabled, never
\* disables sync and stops the dome at most MaxStops times
LiveInit ==
    \E az \in RequiredAzValues : InitialState(NoInput, NoPointing, az)

LiveNext ==
    \/ Connect /\ UNCHANGED <<other_than_dome, http, live_vars>>
    \/ SetSync(TRUE) /\ UNCHANGED <<other_than_dome, http, live_vars>>
    \/ \E t \in AzTargets :
          /\ ~is_syncing
          /\ MoveToAzimuth(t)
          /\ UNCHANGED <<other_than_dome, http, live_vars>>
    \/ /\ stops < MaxStops
       /\ StopMovement
       /\ stops' = stops + 1
       /\ UNCHANGED <<other_than_dome, http, required_azimuth>>
    \/ \E i \in TaskIds :
          SyncCycle(i, TRUE, required_azimuth)
             /\ UNCHANGED <<other_than_dome, http, live_vars>>
    \/ \E dt \in TickSteps :
          Tick(dt) /\ UNCHANGED <<other_than_dome, http, live_vars>>

\* the event loop runs a sync task whose sleep is over, and time passes
LiveFairness ==
    /\ WF_vars(\E i \in TaskIds :
                  SyncCycle(i, TRUE, required_azimuth)
                     /\ UNCHANGED <<other_than_dome, http, live_vars>>)
    /\ WF_vars(\E dt \in TickSteps :
                  Tick(dt) /\ UNCHANGED <<other_than_dome, http, live_vars>>)

LiveSpec == LiveInit /\ [][LiveNext]_vars /\ LiveFairness

----------------------------------------------------------------------------
(* Vocabulary of the claims *)

move_record == <<azimuth, target_azimuth, start_azimuth, elapsed, move_duration,
                 is_moving>>

\* the angular distance between two azimuths, the short way round
ArcDist(a, b) == Min((a - b) % FullTurn, (b - a) % FullTurn)

\* x lies on a shortest arc from s to t
OnShortArc(x, s, t) == ArcDist(s, x) + ArcDist(x, t) = ArcDist(s, t)

\* a step in which a mover is accepted: an operator's or the sync loop's
AcceptStep ==
    \/ \E t \in AzTargets : MoveToAzimuth(t) /\ last'.res = "ok"
    \/ \E i \in TaskIds, az \in RequiredAzValues :
          SyncCycle(i, TRUE, az) /\ last'.res = "moved"

\* get_status has just returned (azimuth, is_moving)
StatusReturned == last.op = "get_status" /\ last.res = "ok"

\* task i ran the try block of a sync cycle in this step and went to sleep
CycleRunBy(i) ==
    /\ tasks[i] \in {"new", "sleeping"} /\ sleep_left[i] = 0
    /\ tasks'[i] = "sleeping" /\ sleep_left'[i] = SyncSleep

----------------------------------------------------------------------------
(* C1 *)

\* C1, as stated: in every reachable state, move_to_azimuth called while the
\* moving flag is true raises the already-moving error and leaves the move
\* record unchanged.
C1_RejectedAsAlreadyMovingEverywhere ==
    [][\A t \in AzTargets :
          MoveToAzimuth(t) /\ is_moving
             => last'.res = "already_moving" /\ UNCHANGED move_record]_vars

\* C1, amended: move_to_azimuth called while the moving flag is true leaves
\* azimuth, target, start, move start time, duration and the flag unchanged and
\* raises: the already-moving error on a connected dome, the not-connected
\* error on a disconnected one.
C1_RejectedWhileMoving ==
    [][\A t \in AzTargets :
          MoveToAzimuth(t) /\ is_moving
             => /\ last'.res = IF is_connected THEN "already_moving"
                                ELSE "not_connected"
                /\ UNCHANGED move_record]_vars

\* C1 witness: a second move was rejected before the first completed
C1_SecondMoveRejected ==
    /\ last.op = "move_to_azimuth" /\ last.res = "already_moving"
    /\ is_moving /\ 0 < elapsed /\ elapsed < move_duration
    /\ last.arg # target_azimuth

----------------------------------------------------------------------------
(* C2 *)

\* C2: exchanges on the one stream are serialized: no two callers are between
\* their send and their last read at once, and a call that returns a reply
\* returns the reply to its own command.
C2_ExchangesSerialized ==
    /\ Cardinality({c \in Callers : pc[c] = "reading"}) <= 1
    /\ \A c \in Callers :
          pc[c] = "done" /\ result[c].err = "none"
             => result[c].text \o <<Terminator>> = ReplyTo(cmd[c])

----------------------------------------------------------------------------
(* C3 *)

\* C3: a mover is accepted only in a step that starts with the moving flag
\* false and ends with it true, and the move record's target, start and
\* duration change in no other step: the test and the set are one step, so no
\* two movers are accepted for the same idle state.
C3_CheckAndSetAtomic ==
    [][/\ AcceptStep => ~is_moving /\ is_moving'
       /\ <<target_azimuth, start_azimuth, move_duration>>'
             # <<target_azimuth, start_azimuth, move_duration>> => AcceptStep
       /\ ~is_moving /\ is_moving' => AcceptStep]_vars

\* C3 witness: an operator's move was accepted while the sync loop was cycling
C3_MoveAcceptedAmidSyncCycles ==
    /\ last.op = "move_to_azimuth" /\ last.res = "ok"
    /\ is_syncing /\ \E i \in TaskIds : tasks[i] = "sleeping"
    /\ is_moving

----------------------------------------------------------------------------
(* C4 *)

\* C4: with sync enabled and the dome idle, a sync cycle whose mount reads
\* return issues no move while the required azimuth is within 1 degree of the
\* last commanded target, and issues one move to the required azimuth beyond.
C4_SyncHysteresis ==
    [][\A i \in TaskIds, az \in RequiredAzValues :
          SyncCycle(i, TRUE, az) /\ is_syncing /\ ~is_moving
             => IF Abs(az - target_azimuth) > Hysteresis
                THEN is_moving' /\ target_azimuth' = az
                ELSE UNCHANGED move_record]_vars

----------------------------------------------------------------------------
(* C5 *)

\* C5, as stated: during a move the signed delta of the interpolation lies in
\* (-180, 180], and every azimuth get_status returns lies on the shortest arc
\* from the move's start to its target.
C5_DeltaHalfOpen ==
    /\ is_moving =>
          LET d == ShortestDelta(start_azimuth, target_azimuth)
          IN  -HalfTurn < d /\ d <= HalfTurn
    /\ StatusReturned /\ is_moving
          => OnShortArc(azimuth, start_azimuth, target_azimuth)

\* C5, amended: during a move the signed delta of the interpolation lies in
\* [-180, 180] (-180 when target - start is -180) and its size is the shortest
\* angular distance from start to target, and every azimuth get_status returns
\* lies on a shortest arc from the move's start to its target.
C5_ShortestArc ==
    /\ is_moving =>
          LET d == ShortestDelta(start_azimuth, target_azimuth)
          IN  /\ -HalfTurn <= d /\ d <= HalfTurn
              /\ Abs(d) = ArcDist(start_azimuth, target_azimuth)
    /\ StatusReturned /\ is_moving
          => OnShortArc(azimuth, start_azimuth, target_azimuth)

\* C5 witness: get_status during the move from 350 to 10, past 0
C5_Through0From350To10 ==
    /\ StatusReturned /\ is_moving
    /\ start_azimuth = 350 /\ target_azimuth = 10
    /\ azimuth < 10

----------------------------------------------------------------------------
(* C6 *)

\* C6: every azimuth get_status returns is within [0, 360)
C6_AzimuthInRange ==
    StatusReturned => 0 <= azimuth /\ azimuth < FullTurn

----------------------------------------------------------------------------
(* C7 *)

\* C7: the duration an accepted move records is the shortest angular distance
\* from the current azimuth to the target divided by the slew rate
C7_DurationOfShortestArc ==
    last.op = "move_to_azimuth" /\ last.res = "ok"
       => move_duration * SlewRate
             = ArcDist(start_azimuth, target_azimuth) * TicksPerSecond

----------------------------------------------------------------------------
(* C8 *)

\* C8, as stated: a get_status call made when the time since the move start
\* has reached the move duration returns the target with moving false, and
\* every earlier call returns moving true.
C8_SnapForEveryMove ==
    [][GetStatus /\ is_connected
          => IF elapsed >= move_duration
             THEN azimuth' = target_azimuth /\ ~is_moving'
             ELSE is_moving']_vars

\* C8, amended: for every accepted move that stop_movement has not cut short,
\* a get_status call made when the time since the move start has reached the
\* move duration returns the target with moving false, and every earlier call
\* returns moving true.
C8_SnapUnlessStopped ==
    [][GetStatus /\ is_connected /\ ~stopped
          => IF elapsed >= move_duration
             THEN azimuth' = target_azimuth /\ ~is_moving'
             ELSE is_moving']_vars

\* C8 witness: get_status found the move's duration elapsed and snapped
C8_SnappedToTarget ==
    /\ StatusReturned /\ ~stopped /\ ~is_moving
    /\ move_duration > 0 /\ elapsed >= move_duration
    /\ azimuth = target_azimuth /\ azimuth # start_azimuth

----------------------------------------------------------------------------
(* C9 *)

\* C9: on a connected dome stop_movement raises nothing and leaves moving
\* false and the azimuth at the position interpolated at the call (the target
\* if the move had elapsed, the azimuth as it was if no move was in progress);
\* the azimuth then stays until a move is accepted.
C9_StopHolds ==
    [][/\ StopMovement /\ is_connected
          => /\ last'.res = "ok"
             /\ ~is_moving'
             /\ azimuth' = UpdatePosition.az
             /\ ~is_moving => azimuth' = azimuth
             /\ is_moving /\ elapsed >= move_duration => azimuth' = target_azimuth
             /\ is_moving /\ elapsed < move_duration
                   => OnShortArc(azimuth', start_azimuth, target_azimuth)
       /\ ~is_moving /\ ~AcceptStep => azimuth' = azimuth]_vars

\* C9 witness: a move was stopped part-way, short of its target
C9_StoppedPartWay ==
    /\ last.op = "stop_movement" /\ last.res = "ok"
    /\ stopped /\ ~is_moving
    /\ azimuth # start_azimuth /\ azimuth # target_azimuth

----------------------------------------------------------------------------
(* C10 *)

\* C10: at most one sync task can run sync cycles, and it is the one
\* _sync_task refers to
C10_OneSyncTask ==
    /\ Cardinality(LiveTasks) <= 1
    /\ LiveTasks \subseteq {sync_task}

\* C10 witness: set_sync(true) returned with the task that was already
\* cycling still the only one
C10_SetSyncFoundTask ==
    /\ last.op = "set_sync" /\ last.res = "ok" /\ last.arg = 1
    /\ sync_task # NoTask /\ tasks[sync_task] = "sleeping"

----------------------------------------------------------------------------
(* C11 *)

\* C11: when set_sync(false) or close() returns on a connected dome no sync
\* task is left able to run; a sync cycle is executed only by the task
\* _sync_task refers to, with sync enabled and the dome connected; and a task
\* becomes able to run only in a set_sync(true) step.
C11_NoCycleAfterCancel ==
    [][/\ last'.op = "close" => LiveTasks' = {}
       /\ last'.op = "set_sync" /\ last'.res = "ok" /\ last'.arg = 0
             => LiveTasks' = {}
       /\ \A i \in TaskIds :
             CycleRunBy(i) => is_syncing /\ is_connected /\ sync_task = i
       /\ ~(LiveTasks' \subseteq LiveTasks)
             => last'.op = "set_sync" /\ last'.res = "ok" /\ last'.arg = 1]_vars

\* C11 witness: set_sync(false) returned and cancelled the task that had been
\* cycling, whose sleep would have ended by now
C11_CancelledAfterCycling ==
    /\ last.op = "set_sync" /\ last.res = "ok" /\ last.arg = 0
    /\ ~is_syncing /\ LiveTasks = {}
    /\ \E i \in TaskIds : tasks[i] = "cancelled"

----------------------------------------------------------------------------
(* C12 *)

\* C12: set_sync(false) during a move leaves the moving flag, the target,
\* the start, the time since the move start and the duration as they were,
\* so the move completes at its target as any other.
C12_DisableSyncKeepsMove ==
    [][SetSync(FALSE) /\ is_moving
          => UNCHANGED <<is_moving, target_azimuth, start_azimuth, elapsed,
                         move_duration, azimuth, stopped>>]_vars

\* C12 witness: sync was disabled part-way through a move, which goes on
C12_SyncDisabledMidMove ==
    /\ last.op = "set_sync" /\ last.res = "ok" /\ last.arg = 0
    /\ is_moving /\ 0 < elapsed /\ elapsed < move_duration
    /\ \E i \in TaskIds : tasks[i] = "cancelled"

----------------------------------------------------------------------------
(* C13 *)

\* C13: a sync cycle that runs with sync enabled, whatever is raised in it,
\* leaves its task asleep for the sleep period and still the task _sync_task
\* refers to, with sync still enabled; and while sync is enabled the task
\* _sync_task refers to is able to run, so its next cycle follows the sleep.
C13_CycleErrorsCaught ==
    [][/\ \A i \in TaskIds, r \in BOOLEAN, az \in RequiredAzValues :
             SyncCycle(i, r, az) /\ is_syncing
                => /\ CycleRunBy(i)
                   /\ sync_task' = i /\ is_syncing'
       /\ is_syncing' /\ sync_task' # NoTask => sync_task' \in LiveTasks']_vars

\* C13 witness: a cycle's mount read failed, the task slept, and it is ready
\* to run its next cycle
C13_ReadyAfterFailedCycle ==
    /\ last.op = "sync_cycle" /\ last.res = "mount_error"
    /\ is_syncing /\ sync_task # NoTask
    /\ tasks[sync_task] = "sleeping" /\ sleep_left[sync_task] = 0

----------------------------------------------------------------------------
(* Vocabulary of the claims on the command channel *)

\* a send_command call started in this step
CallStarts(c) == pc[c] = "idle" /\ pc'[c] # "idle"

\* the call has returned a text, raising nothing
HasReturned(c) == pc[c] = "done" /\ result[c].err = "none"

\* how many terminators the bytes hold
TerminatorCount(bytes) ==
    Cardinality({i \in 1..Len(bytes) : bytes[i] = Terminator})

\* the bytes with surrounding white space and trailing terminators trimmed
TrimmedWhole(bytes) == Strip(RStripTerminator(Strip(bytes)))

----------------------------------------------------------------------------
(* C14 *)

\* C14: a send_command call made while the driver has no stream (before
\* connect, after close) ends at once with the not-connected error and writes
\* nothing to any stream.
C14_NotConnectedRaises ==
    [][\A c \in Callers :
          CallStarts(c) /\ sock = NoSock
             => /\ pc'[c] = "done"
                /\ result'[c] = Raised("not_connected")
                /\ to_mount' = to_mount /\ to_mount = <<>>
                /\ from_mount' = from_mount]_vars

\* C14 witness: a call made after close() raised the not-connected error
C14_RaisedAfterClose ==
    /\ sock = NoSock
    /\ \E s \in StreamIds : streams[s] = "closed"
    /\ \E c \in Callers : pc[c] = "done" /\ result[c] = Raised("not_connected")

----------------------------------------------------------------------------
(* C15 *)

\* C15: a call on a connected driver writes its command followed by one
\* terminator and nothing else; when expect_response is false the call has
\* then returned the empty string, and it has read nothing.
C15_EncodedOnceNoRead ==
    [][\A c \in Callers :
          CallStarts(c) /\ sock # NoSock
             => /\ to_mount' = to_mount \o <<cmd'[c], Terminator>>
                /\ cmd'[c] # Terminator
                /\ ~opts'[c].expect_response
                      => /\ pc'[c] = "done"
                         /\ result'[c] = Returned(<<>>)
                         /\ data'[c] = <<>>
                         /\ from_mount' = from_mount]_vars

\* C15 witness: a command that expects no reply has returned the empty string
\* with bytes left unread on the stream
C15_ReturnedWithoutReading ==
    /\ pc[FirstCaller] = "done" /\ ~opts[FirstCaller].expect_response
    /\ result[FirstCaller] = Returned(<<>>)
    /\ from_mount # <<>>
    /\ to_mount = <<cmd[FirstCaller], Terminator>>

----------------------------------------------------------------------------
(* C16 *)

\* C16: in terminated framing, once the bytes accumulated hold a terminator
\* the call reads no more, and it returns the text before the first
\* terminator.
C16_StopsAtFirstTerminator ==
    [][\A c \in Callers :
          (/\ pc[c] = "reading" /\ Framing(opts[c]) = "terminated"
           /\ HasTerminator(data[c])
           /\ (pc'[c] # pc[c] \/ data'[c] # data[c]))
             => /\ data'[c] = data[c]
                /\ result'[c] = Returned(Strip(FirstReply(data[c])))]_vars

----------------------------------------------------------------------------
(* C17 *)

\* C17: a call whose bytes read hold more than one terminator returns the
\* first reply, and what it read beyond that is dropped when it returns:
\* the stream is left as the reads left it.
C17_FirstReplyOnly ==
    [][\A c \in Callers :
          /\ pc'[c] = "done" /\ TerminatorCount(data'[c]) > 1
                => result'[c] = Returned(Strip(FirstReply(data'[c])))
          /\ pc[c] = "done" /\ pc'[c] = "idle"
                => data'[c] = <<>> /\ from_mount' = from_mount]_vars

----------------------------------------------------------------------------
(* C18 *)

\* C18: in terminated framing a timeout raises the timeout error, whether
\* no byte or some bytes had been received; a call that returned bytes
\* holding no terminator did so because the mount closed the stream, never
\* after a timeout.
C18_TimeoutRaises ==
    [][\A c \in Callers :
          /\ RecvTimeout(c) /\ Framing(opts[c]) = "terminated"
                => result'[c] = Raised("timeout") /\ pc'[c] = "done"
          /\ (/\ pc'[c] = "done" /\ Framing(opts'[c]) = "terminated"
              /\ opts'[c].expect_response
              /\ result'[c].err = "none" /\ ~HasTerminator(data'[c]))
                => sock' # NoSock /\ streams'[sock'] = "peer_closed"]_vars

\* C18 witness: a terminated read timed out after part of a reply
C18_TimedOutWithPartialData ==
    /\ pc[FirstCaller] = "done" /\ Framing(opts[FirstCaller]) = "terminated"
    /\ result[FirstCaller] = Raised("timeout")
    /\ data[FirstCaller] # <<>> /\ ~HasTerminator(data[FirstCaller])

----------------------------------------------------------------------------
(* C19 *)

\* C19: in single-character framing the call reads once, at most 4 bytes,
\* and returns the first character received.
C19_FirstCharacter ==
    [][\A c \in Callers :
          (/\ pc[c] = "reading" /\ Framing(opts[c]) = "single_char"
           /\ from_mount # <<>>
           /\ (pc'[c] # pc[c] \/ data'[c] # data[c]))
             => /\ pc'[c] = "done"
                /\ Len(from_mount) - Len(from_mount') <= SingleCharRecvSize
                /\ result'[c] = Returned(<<Head(from_mount)>>)]_vars

----------------------------------------------------------------------------
(* C20 *)

\* C20: in unterminated framing the call returns all the bytes it read, with
\* surrounding white space and a trailing terminator trimmed.
C20_ReturnsEverything ==
    \A c \in Callers :
       HasReturned(c) /\ Framing(opts[c]) = "unterminated"
       /\ opts[c].expect_response
          => result[c].text = TrimmedWhole(data[c])

\* ---------------------------------------------------------------------
\* C21: connect on a driver that already holds a stream closes that stream
\* before the new one replaces it: the only stream the driver has opened and
\* not closed is the one it holds, so at most one stream is open.
C21_ReplacedStreamClosed ==
    \A s \in StreamIds : streams[s] = "open" => s = sock

----------------------------------------------------------------------------
(* C22 - C25: vocabulary *)

\* the commands the method call has sent, in order
Sent == SelectSeq(trace, LAMBDA e : e # "sleep")

\* the two commands of a method that sets a pair of axes
AxisCommands(op) ==
    IF op = "set_target_ra_dec" THEN <<":Sr", ":Sd">> ELSE <<":Sa", ":Sz">>

SetsAxisPair == call.op \in {"set_target_ra_dec", "set_target_alt_az"}

\* the arguments the claim calls invalid
LimitOutOfRange(n) == n < 0 \/ n > 90
AdjustmentOutOfRange(n) == n < -999 \/ n > 999
NotADirection(d) == Upper(d) \notin {"N", "S", "E", "W"}
NotAPierSide(p) == p # None /\ p # "" /\ Upper(p) \notin {"E", "W"}

InvalidArgument(m) ==
    \/ m.op = "set_high_alt_limit" /\ LimitOutOfRange(m.num)
    \/ m.op = "nudge" /\ (m.num <= 0 \/ NotADirection(m.arg))
    \/ m.op = "move_direction" /\ NotADirection(m.arg)
    \/ m.op = "halt_movement" /\ m.arg # None /\ NotADirection(m.arg)
    \/ m.op = "slew_to_target_equatorial" /\ NotAPierSide(m.arg)
    \/ m.op = "adjust_mount_time" /\ AdjustmentOutOfRange(m.num)

\* what a whole nudge puts on the record: move, wait, halt
NudgeTrace(d) == <<":M" \o Lower(d), "sleep", ":Q" \o Lower(d)>>

IsPrefix(p, q) == Len(p) <= Len(q) /\ p = SubSeq(q, 1, Len(p))

----------------------------------------------------------------------------
(* C22 *)

\* C22: set_target_ra_dec (set_target_alt_az) makes two exchanges, the first
\* axis then the second.  Once the first axis is answered, with '0' as with
\* '1', the call goes on to send the second axis's command (unless the
\* connection is lost before it can); it sends nothing else, and it returns
\* the two replies, each under its own axis.
C22_AxesSetIndependently ==
    (SetsAxisPair /\ Len(replies) >= 1)
       => /\ Sent[1] = AxisCommands(call.op)[1]
          /\ \/ /\ at = "running" /\ Len(Sent) = 1
                /\ todo = <<SendStep(AxisCommands(call.op)[2], SingleChar)>>
             \/ Sent = AxisCommands(call.op)
             \/ /\ at = "done" /\ Len(Sent) = 1
                /\ outcome = Raised("send_failed")
          /\ (at = "done" /\ outcome.err = "none")
                => /\ Sent = AxisCommands(call.op)
                   /\ Len(replies) = 2
                   /\ outcome.text = replies

\* C22 witness: RA was answered '0', Dec was sent all the same and answered
\* '1', and the call returned both
C22_SecondAxisSetAfterInvalidFirst ==
    /\ call.op = "set_target_ra_dec" /\ at = "done"
    /\ trace = <<":Sr", ":Sd">>
    /\ outcome = Returned(<<"0", "1">>)

----------------------------------------------------------------------------
(* C23 *)

\* C23: a method called with an argument outside its domain raises the
\* validation error at once, connected or not, and the call sends nothing.
C23_ValidatedBeforeSending ==
    (call # NoCall /\ InvalidArgument(call))
       => /\ at = "done"
          /\ outcome = Raised("value_error")
          /\ trace = <<>>

\* C23 witness: nudge with a valid direction and a duration of 0 was
\* rejected on an open connection
C23_NudgeRejectedWhileConnected ==
    /\ call.op = "nudge" /\ call.arg = "N" /\ call.num = 0
    /\ outcome = Raised("value_error")
    /\ sock # NoSock /\ streams[sock] = "open"

----------------------------------------------------------------------------
(* C24 *)

\* C24: a halt_movement call that returns has sent exactly one command: the
\* halt for the direction it was given, or ':Q', the halt of all directions,
\* when it was given none.
C24_HaltSendsQ ==
    (call.op = "halt_movement" /\ at = "done" /\ outcome.err = "none")
       => Sent = <<IF call.arg = None THEN ":Q" ELSE ":Q" \o Lower(call.arg)>>

----------------------------------------------------------------------------
(* C25 *)

\* C25 as stated: a nudge call that has sent its move command ends only
\* after it has waited and sent the halt for the same direction.
C25_MoveAlwaysHalted ==
    (call.op = "nudge" /\ at = "done" /\ trace # <<>>)
       => trace = NudgeTrace(Upper(call.arg))

\* C25: a nudge call sends the move, waits, and sends the halt for the same
\* direction, in that order and nothing else; once the move is sent the call
\* ends either with all three done, or with the error of the halt's own
\* failed send after the wait.
C25_MoveWaitHalt ==
    call.op = "nudge"
       => /\ IsPrefix(trace, NudgeTrace(Upper(call.arg)))
          /\ (at = "done" /\ trace # <<>>)
                => \/ /\ trace = NudgeTrace(Upper(call.arg))
                      /\ outcome = Returned(<<>>)
                   \/ /\ trace = SubSeq(NudgeTrace(Upper(call.arg)), 1, 2)
                      /\ outcome = Raised("send_failed")

\* C25 witness: a nudge to the south has moved, waited, halted and returned
C25_NudgedSouth ==
    /\ call = MethodCall("nudge", "s", 50) /\ at = "done"
    /\ trace = <<":Ms", "sleep", ":Qs">>
    /\ outcome = Returned(<<>>)

----------------------------------------------------------------------------
(* C26 *)

\* how far the number parsed back is from the number formatted, in
\* thousandths of a second
RoundTripError == Abs(conv_out.num - conv_in.num)

\* C26 as stated: formatting an hour angle in [0, 24) or a signed angle in
\* [-90, 180] and parsing the string back gives a number within 1e-6 (of an
\* hour, of a degree) of the one formatted.
C26_RoundTripWithin1e6 ==
    conv_at = "parsed"
       => /\ conv_out.err = "none"
          /\ RoundTripError * 1000000 < TicksPerUnit

\* C26: formatting and parsing back gives a number within half a hundredth
\* of a second of the one formatted, which is less than 1.4e-6 of an hour or
\* of a degree.
C26_RoundTripWithinHalfHundredth ==
    conv_at = "parsed"
       => /\ conv_out.err = "none"
          /\ 2 * RoundTripError <= TicksPerHundredth
          /\ RoundTripError * 10000000 < 14 * TicksPerUnit

\* C26 witness: a negative angle came back more than 1e-6 of a degree from
\* where it started
C26_NegativeAngleOffByMore ==
    /\ conv_at = "parsed" /\ conv_in.kind = "degrees" /\ conv_in.num < 0
    /\ conv_out.err = "none" /\ conv_out.num < 0
    /\ RoundTripError * 1000000 >= TicksPerUnit

----------------------------------------------------------------------------
(* C27 *)

\* a string that has not exactly three fields, or has a field that is no
\* number
Malformed(str) ==
    \/ Len(str.tokens) # 3
    \/ \E i \in 1..Len(str.tokens) : str.tokens[i].kind # "number"

\* C27: each of the three parsers, given a malformed string, raises an error
\* and produces no value.
C27_MalformedRejected ==
    (conv_at \in Parsers /\ Malformed(conv_text)) => conv_out.err # "none"

----------------------------------------------------------------------------
(* C28 *)

\* the flags of the simulator
fake_flags == <<fake_is_connected, fake_is_slewing, fake_is_tracking,
                fake_is_parked, fake_status, fake_target_set>>

\* C28: whatever methods of the simulator are called, it is never slewing and
\* parked at once; a slew asked of a parked simulator is refused and changes
\* nothing, and park leaves the simulator parked and not slewing.
C28_NeverSlewingAndParked ==
    [][/\ ~(fake_is_slewing /\ fake_is_parked)
       /\ ~(fake_is_slewing' /\ fake_is_parked')
       /\ (/\ fake_is_parked /\ fake_last' # fake_last
           /\ fake_last'.op = "slew_to_target_equatorial")
             => /\ fake_last'.res = "Mount is Parked"
                /\ UNCHANGED <<fake_flags, fake_slew_left>>
       /\ (fake_last' # fake_last /\ fake_last'.op = "park")
             => fake_is_parked' /\ ~fake_is_slewing']_vars

\* C28 witness: a connected simulator with a target was parked during a slew
\* and then asked to slew; it refused
C28_SlewRefusedWhileParked ==
    /\ fake_last = FakeCall("slew_to_target_equatorial", "Mount is Parked")
    /\ fake_is_connected /\ fake_target_set /\ fake_is_parked
    /\ fake_slew_left > 0

----------------------------------------------------------------------------
(* C29 *)

\* every offset and every distance between axes is 0
Centered(p) ==
    /\ IsZero(p.mount_offset_ns) /\ IsZero(p.mount_offset_ew)
    /\ IsZero(p.mount_pier_height)
    /\ IsZero(p.polar_axis_to_dec_axis) /\ IsZero(p.dec_axis_to_telescope)

\* the sidereal time is the right ascension, and the declination is 0
OnMeridianAtEquator(p) == IsZero(p.hour_angle) /\ IsZero(p.dec)

\* C29: for a centered mount on the meridian at declination 0,
\* calculate_dome_azimuth returns 180, on either side of the pier and at any
\* latitude.
C29_CenteredOnMeridianIsSouth ==
    (geom_out # "pending" /\ Centered(geom_in) /\ OnMeridianAtEquator(geom_in))
       => geom_out = "180"

\* C29 witness: 180 was returned for a centered mount east of the pier, on
\* the meridian at declination 0, in the southern hemisphere
C29_SouthFromEastOfPier ==
    /\ geom_out = "180"
    /\ Centered(geom_in) /\ OnMeridianAtEquator(geom_in)
    /\ geom_in.pier_side = "East" /\ geom_in.latitude = "neg"

----------------------------------------------------------------------------
(* C30 *)

\* C30: in terminated framing, when the mount has closed the stream and the
\* bytes accumulated hold no terminator, the call ends without an error and
\* returns those bytes as text (trimmed of white space), be they none.
C30_ShortReplyOnClose ==
    [][\A c \in Callers :
          (/\ pc[c] = "reading" /\ Framing(opts[c]) = "terminated"
           /\ ~HasTerminator(data[c])
           /\ sock # NoSock /\ streams[sock] = "peer_closed"
           /\ from_mount = <<>>
           /\ pc'[c] # pc[c])
             => /\ pc'[c] = "done"
                /\ result'[c] = Returned(Strip(data[c]))]_vars

\* C30 witness: the mount closed the stream after one byte of a terminated
\* reply, and the call returned that byte
C30_ReturnedShortReply ==
    /\ pc[FirstCaller] = "done"
    /\ Framing(opts[FirstCaller]) = "terminated"
    /\ sock # NoSock /\ streams[sock] = "peer_closed"
    /\ data[FirstCaller] = <<"1">>
    /\ result[FirstCaller] = Returned(<<"1">>)

----------------------------------------------------------------------------
(* C31 *)

\* the mount's reply to :GWRAP2# has status '1': the scan is still underway
ScanInProgress(reply) ==
    reply.kind = "none" /\ reply.value # <<>> /\ Head(reply.value) = "1"

\* C31: when the access-point results call reports that the scan is still in
\* progress, the /network_status request goes on with an empty access-point
\* list and is not answered with a mount communication error.
C31_ScanInProgressTolerated ==
    [][\A reply \in Replies(":GWRAP2", AccessPointReplies) :
          NetAccessPoints(reply) /\ ScanInProgress(reply)
             => /\ net_at' = "ip_info"
                /\ net_aps' = <<>>
                /\ net_response' = NoResponse]_vars

----------------------------------------------------------------------------
(* C32 *)

\* a dome route is served in this step
RouteServed ==
    \/ dome_status \/ dome_sync_status \/ dome_stop
    \/ \E az \in AzTargets : dome_move(az)
    \/ \E slave \in BOOLEAN : dome_set_slave(slave)

\* C32: every dome route answers 503 when the dome is not connected, the slew
\* route included, and the slew route answers 409 when the dome is connected
\* and already moving.
C32_NotConnected503AlreadyMoving409 ==
    [][/\ RouteServed /\ ~is_connected => http'.status = 503
       /\ (\E az \in AzTargets : dome_move(az)) /\ is_connected /\ is_moving
             => http'.status = 409]_vars

----------------------------------------------------------------------------
(* C33 *)

\* the symbols of a sequence
Symbols(seq) == {seq[i] : i \in 1..Len(seq)}

\* C33: what a send_command call returns consists only of bytes the mount
\* sent in answer to that call's command, never of bytes it sent in answer
\* to an earlier command.
C33_ReplyToOwnCommand ==
    \A c \in Callers :
       pc[c] = "done" /\ result[c].err = "none"
          => Symbols(result[c].text) \subseteq Symbols(ReplyTo(cmd[c]))

----------------------------------------------------------------------------
(* C34 *)

\* C34: move_to_azimuth on a connected dome is rejected as already moving
\* only while a move is really in progress, that is while the time since the
\* move started is less than its duration; once the duration has elapsed a
\* new move is accepted, whether or not get_status or stop_movement was
\* called in between.
C34_RejectedOnlyWhileInProgress ==
    [][\A t \in AzTargets :
          MoveToAzimuth(t) /\ is_connected
             => IF is_moving /\ elapsed < move_duration
                THEN last'.res = "already_moving"
                ELSE last'.res = "ok"]_vars

----------------------------------------------------------------------------
(* C35 *)

\* sync is enabled on a connected dome and its task is alive
SyncRunning ==
    /\ is_connected /\ is_syncing
    /\ sync_task # NoTask /\ tasks[sync_task] \in {"new", "sleeping"}

\* the required azimuth is more than the hysteresis away from the last
\* commanded target and no move is in progress any more
MoveDue ==
    /\ Abs(required_azimuth - target_azimuth) > Hysteresis
    /\ elapsed >= move_duration

\* the latest sync cycle issued a move to the required azimuth
SyncMoved ==
    last.op = "sync_cycle" /\ last.res = "moved" /\ last.arg = required_azimuth

\* C35: with sync enabled and the mount reads succeeding, whenever the
\* required azimuth is more than 1 degree from the last commanded target and
\* the duration of any earlier move has elapsed, the sync loop eventually
\* issues a move to the required azimuth, with no get_status or stop_movement
\* call needed to clear the moving flag.
C35_SyncMovesOnItsOwn == (SyncRunning /\ MoveDue) ~> SyncMoved

----------------------------------------------------------------------------
(* C36 *)

\* C36: with sync enabled, the mount reads succeeding and the required
\* azimuth held constant, the dome eventually comes within 1 degree of the
\* required azimuth, also when the operator's stop_movement cut a move short.
C36_DomeReachesRequired ==
    SyncRunning ~> (ArcDist(UpdatePosition.az, required_azimuth) <= Hysteresis)

----------------------------------------------------------------------------
(* C37 *)

\* a sync task is about to run a cycle on an idle, connected dome
CycleDue ==
    /\ is_connected /\ is_syncing /\ ~is_moving
    /\ \E i \in TaskIds : tasks[i] \in {"new", "sleeping"} /\ sleep_left[i] = 0

----------------------------------------------------------------------------
(* C38 *)

\* C38: whenever the dome is connected, the flag get_sync_status returns is
\* true if and only if there is a sync task that has neither finished nor
\* been cancelled.
C38_SyncingIffTaskAlive ==
    is_connected => (is_syncing <=> LiveTasks # {})

\* C38 witness: the dome was closed with sync enabled and has been connected
\* again: the task is cancelled and the flag is false
C38_ReconnectedAfterSync ==
    /\ last.op = "connect" /\ is_connected
    /\ ~is_syncing /\ LiveTasks = {}
    /\ \E i \in TaskIds : tasks[i] = "cancelled"

----------------------------------------------------------------------------
(* C39 *)

\* pointing x lies between pointings a and b
Between(x, a, b) == Min(a, b) <= x /\ x <= Max(a, b)

\* C39: whatever targets are set while a slew is in progress, the pointing
\* the simulator computes during the slew lies between the slew's origin and
\* the target that was set when the slew started, and when the slew
\* completes the current pointing is that target.
C39_SlewKeepsItsTarget ==
    [][(FakeGetStatus \/ FakeGetPosition) /\ fake_is_slewing
          => /\ Between(fake_current', fake_origin, fake_goal)
             /\ ~fake_is_slewing' => fake_current' = fake_goal]_vars

----------------------------------------------------------------------------
(* C40 *)

\* C40: the string hours_to_hms or degrees_to_dms writes is well-formed
\* sexagesimal: its minutes field is in 00..59 and its seconds field in
\* 00.00..59.99, so that rounding the seconds never gives 60.00.
C40_WellFormedSexagesimal ==
    conv_at = "formatted"
       => /\ Len(conv_text.tokens) = 3
          /\ conv_text.tokens[2].hundredths \in 0..((MinutesPerUnit - 1) * Hundredths)
          /\ conv_text.tokens[3].hundredths \in 0..(MinutesPerUnit * Hundredths - 1)
====
